---- MODULE Spec2Model ----
(***************************************************************************)
(* Unit-Converter-Hub: the conversion engine (src/src/utils/               *)
(* conversionUtils.js) over the unit registry (src/src/models/             *)
(* unitCategories.js).                                                     *)
(*                                                                         *)
(* Numbers.  A JavaScript number is modelled as a record                   *)
(*     [type, kind, n, d, e, s]                                            *)
(* where kind is "finite", "NaN", "Infinity" or "-Infinity" and a finite   *)
(* number is the exact value (n / d) * 10^e.  Arithmetic is exact: the     *)
(* binary representation error of IEEE-754 doubles and the sign of zero    *)
(* are outside the model.  Values that are not numbers (strings,           *)
(* undefined) carry type "string" / "undefined".                           *)
(*                                                                         *)
(* Strings are TLA+ strings; the absent value `undefined` of a string      *)
(* argument is the reserved string Undefined.                              *)
(***************************************************************************)
EXTENDS Integers, Sequences, FiniteSets, TLC

\* call, result: the call a client made and what it got; back: the result of
\* converting result back; registry: the object UNIT_CATEGORIES the engine
\* holds; trace: the calls made so far with their results, for the clients
\* that make several calls; alone: for each of those calls the result of
\* making it alone, on the engine as loaded
VARIABLES call, result, back, registry, trace, alone

\* The favorites manager of the browser.  favorites: this.favorites;
\* localStorage: the list stored under CONFIG.STORAGE.FAVORITES, as JSON.parse
\* reads it; outcome: what the last operation returned or threw, and the list
\* it found; generated: the number of identifiers generated so far; clock:
\* the number of operations so far, the time of CONFIG.getTimestamp; loaded:
\* the list the manager loaded when it was constructed
VARIABLES favorites, localStorage, outcome, generated, clock, loaded

\* The page of the browser app.  app: the fields of the UnitConverterApp;
\* elements: the elements of the document it reads and writes; requests: the
\* requests sent and not yet answered; notification: the last toast;
\* timeout: whether the timer of the debounced input is pending; settled: the
\* last request answered, what fetch gave for it and what ApiService.request
\* returned or threw; events: the number of events of the user so far
VARIABLES app, elements, requests, notification, timeout, settled, events

\* the variables of the page
page == <<app, elements, requests, notification, timeout, settled, events>>

\* the variables of the favorites manager
manager == <<favorites, localStorage, outcome, generated, clock, loaded>>

\* the variables of the browser
browser == <<manager, page>>

\* the variables of the server
server == <<call, result, back, registry, trace, alone>>

vars == <<call, result, back, registry, trace, alone,
          favorites, localStorage, outcome, generated, clock, loaded,
          app, elements, requests, notification, timeout, settled, events>>

-----------------------------------------------------------------------------
(* Calls.  JavaScript evaluates the arguments of a call once, before the     *)
(* body; Call1 and Call2 bind the argument values before applying Op.       *)

Call1(Op(_), a) == CHOOSE r \in {Op(x) : x \in {a}} : TRUE

Call2(Op(_, _), a, b) == CHOOSE r \in {Op(x, y) : x \in {a}, y \in {b}} : TRUE

-----------------------------------------------------------------------------
(* Exact decimal arithmetic *)

\* largest integer of the model's integer arithmetic (2^31 - 1)
MaxInt == 2147483646 + 1

Abs(i) == IF i < 0 THEN -i ELSE i

Min(i, j) == IF i < j THEN i ELSE j

GCD[a \in Nat, b \in Nat] == IF b = 0 THEN a ELSE GCD[b, a % b]

Pow10[k \in Int] == IF k <= 0 THEN 1 ELSE 10 * Pow10[k - 1]

\* the finite number (n / d) * 10^e
Dec(n, d, e) == [type |-> "number", kind |-> "finite", n |-> n, d |-> d, e |-> e, s |-> ""]

\* the canonical form of (n / d) * 10^e, d > 0 : n and d coprime, d coprime
\* to 10 (as far as n stays below MaxInt), n not a multiple of 10
Finite[n \in Int, d \in Nat, e \in Int] ==
    IF n = 0 THEN Dec(0, 1, 0)
    ELSE IF GCD[Abs(n), d] > 1
         THEN Finite[n \div GCD[Abs(n), d], d \div GCD[Abs(n), d], e]
    ELSE IF d % 10 = 0 THEN Finite[n, d \div 10, e - 1]
    ELSE IF d % 2 = 0 /\ Abs(n) <= MaxInt \div 5 THEN Finite[n * 5, d \div 2, e - 1]
    ELSE IF d % 5 = 0 /\ Abs(n) <= MaxInt \div 2 THEN Finite[n * 2, d \div 5, e - 1]
    ELSE IF n % 10 = 0 THEN Finite[n \div 10, d, e + 1]
    ELSE Dec(n, d, e)

\* the decimal n * 10^e
Num(n, e) == Finite[n, 1, e]

NaN == [type |-> "number", kind |-> "NaN", n |-> 0, d |-> 1, e |-> 0, s |-> ""]

PlusInfinity == [type |-> "number", kind |-> "Infinity", n |-> 0, d |-> 1, e |-> 0, s |-> ""]

MinusInfinity == [type |-> "number", kind |-> "-Infinity", n |-> 0, d |-> 1, e |-> 0, s |-> ""]

\* a value of type string
Str(s) == [type |-> "string", kind |-> "", n |-> 0, d |-> 1, e |-> 0, s |-> s]

\* the value null
NullValue == [type |-> "null", kind |-> "", n |-> 0, d |-> 1, e |-> 0, s |-> ""]

\* the value undefined
UndefinedValue == [type |-> "undefined", kind |-> "", n |-> 0, d |-> 1, e |-> 0, s |-> ""]

IsFinite(v) == v.type = "number" /\ v.kind = "finite"

IsInfinite(v) == v.type = "number" /\ v.kind \in {"Infinity", "-Infinity"}

\* ToNumber: undefined becomes NaN, numbers stay
ToNumber(v) == IF v.type = "number" THEN v ELSE NaN

Sign(v) == IF v.kind = "Infinity" THEN 1
           ELSE IF v.kind = "-Infinity" THEN -1
           ELSE IF v.n > 0 THEN 1 ELSE IF v.n < 0 THEN -1 ELSE 0

Signed(s) == IF s > 0 THEN PlusInfinity ELSE MinusInfinity

Negate(x) == IF x.kind = "NaN" THEN NaN
             ELSE IF x.kind = "Infinity" THEN MinusInfinity
             ELSE IF x.kind = "-Infinity" THEN PlusInfinity
             ELSE Finite[-x.n, x.d, x.e]

Multiply(x, y) ==
    IF x.kind = "NaN" \/ y.kind = "NaN" THEN NaN
    ELSE IF IsInfinite(x) \/ IsInfinite(y)
         THEN IF Sign(x) * Sign(y) = 0 THEN NaN ELSE Signed(Sign(x) * Sign(y))
    ELSE Finite[x.n * y.n, x.d * y.d, x.e + y.e]

Divide(x, y) ==
    IF x.kind = "NaN" \/ y.kind = "NaN" THEN NaN
    ELSE IF IsInfinite(x)
         THEN IF IsInfinite(y) THEN NaN
              ELSE Signed(Sign(x) * (IF Sign(y) < 0 THEN -1 ELSE 1))
    ELSE IF IsInfinite(y) THEN Num(0, 0)
    ELSE IF y.n = 0
         THEN IF x.n = 0 THEN NaN ELSE Signed(Sign(x))
    ELSE IF y.n > 0 THEN Finite[x.n * y.d, x.d * y.n, x.e - y.e]
    ELSE Finite[-(x.n * y.d), x.d * (-y.n), x.e - y.e]

Plus(x, y) ==
    IF x.kind = "NaN" \/ y.kind = "NaN" THEN NaN
    ELSE IF IsInfinite(x)
         THEN IF IsInfinite(y) /\ x.kind # y.kind THEN NaN ELSE x
    ELSE IF IsInfinite(y) \/ x.n = 0 THEN y
    ELSE IF y.n = 0 THEN x
    ELSE Finite[x.n * Pow10[x.e - Min(x.e, y.e)] * y.d
                    + y.n * Pow10[y.e - Min(x.e, y.e)] * x.d,
                x.d * y.d, Min(x.e, y.e)]

\* -a
Neg(a) == Call1(Negate, ToNumber(a))

\* a * b
JsMul(a, b) == Call2(Multiply, ToNumber(a), ToNumber(b))

\* a / b
JsDiv(a, b) == Call2(Divide, ToNumber(a), ToNumber(b))

\* a + b
JsAdd(a, b) == Call2(Plus, ToNumber(a), ToNumber(b))

\* a - b
JsSub(a, b) == Call2(Plus, ToNumber(a), Neg(b))

-----------------------------------------------------------------------------
(* roundToPrecision *)

\* the default of the parameter `decimals`
Decimals == 10

\* 1 / (Number.EPSILON * 10^Decimals) = 2^52 / 10^10, to six digits:
\* (num + Number.EPSILON) * 10^10 = num * 10^10 + 1 / EpsilonInverse
EpsilonInverse == 450360

\* Math.floor in the place of Math.round
RoundQuotientDown(N, D) == N \div D

\* Math.round(N / D + 1 / EpsilonInverse) for integers N, D > 0: the
\* nearest integer, a tie going up
RoundQuotient(N, D) ==
    (N \div D) + (IF D - 2 * (N % D) <= (2 * D) \div EpsilonInverse THEN 1 ELSE 0)

\* Math.round((x + Number.EPSILON) * 10^10) / 10^10 of a number x
Round(x) ==
    IF x.kind # "finite" THEN x
    ELSE IF x.d = 1 /\ x.e + Decimals >= 0 THEN x
    ELSE IF x.e + Decimals <= -10 THEN Num(0, 0)
    ELSE IF x.e + Decimals >= 0
         THEN Num(RoundQuotient(x.n * Pow10[x.e + Decimals], x.d), -Decimals)
    ELSE Num(RoundQuotient(x.n, x.d * Pow10[-(x.e + Decimals)]), -Decimals)

roundToPrecision(num) == Call1(Round, ToNumber(num))

\* the numbers Round computes within the model's integer range
Roundable(x) ==
    IF x.kind # "finite" THEN TRUE
    ELSE IF x.d = 1 /\ x.e + Decimals >= 0 THEN TRUE
    ELSE IF x.e + Decimals <= -10 THEN TRUE
    ELSE IF x.e + Decimals > 9 THEN FALSE
    ELSE IF x.e + Decimals >= 0
         THEN Abs(x.n) <= MaxInt \div Pow10[x.e + Decimals] /\ x.d <= MaxInt \div 2
    ELSE x.d <= (MaxInt \div 2) \div Pow10[-(x.e + Decimals)]

CanRound(num) == Call1(Roundable, num)

-----------------------------------------------------------------------------
(* The unit registry *)

\* a unit record that loses its factor: the factor of every unit is zero
UZeroFactor(key, name, symbol, factor, cat) ==
    [key |-> key, name |-> name, symbol |-> symbol, factor |-> Num(0, 0), category |-> cat]

\* a unit `key: { name, symbol, factor, category }` of a category
U(key, name, symbol, factor, cat) ==
    [key |-> key, name |-> name, symbol |-> symbol, factor |-> factor, category |-> cat]

\* the categories in declaration order, `units` in declaration order; an
\* icon is written as its code points
UNIT_CATEGORIES == <<
  [key |-> "length", name |-> "Length", icon |-> "U+1F4CF", baseUnit |-> "meter", units |-> <<
        U("nanometer", "Nanometer", "nm", Dec(1, 1, -9), "metric"),
        U("micrometer", "Micrometer", "μm", Dec(1, 1, -6), "metric"),
        U("millimeter", "Millimeter", "mm", Dec(1, 1, -3), "metric"),
        U("centimeter", "Centimeter", "cm", Dec(1, 1, -2), "metric"),
        U("meter", "Meter", "m", Dec(1, 1, 0), "metric"),
        U("kilometer", "Kilometer", "km", Dec(1, 1, 3), "metric"),
        U("inch", "Inch", "in", Dec(254, 1, -4), "imperial"),
        U("foot", "Foot", "ft", Dec(3048, 1, -4), "imperial"),
        U("yard", "Yard", "yd", Dec(9144, 1, -4), "imperial"),
        U("mile", "Mile", "mi", Dec(1609344, 1, -3), "imperial"),
        U("nauticalMile", "Nautical Mile", "nmi", Dec(1852, 1, 0), "nautical"),
        U("lightYear", "Light Year", "ly", Dec(9461, 1, 12), "astronomical") >>],
  [key |-> "weight", name |-> "Weight", icon |-> "U+2696 U+FE0F", baseUnit |-> "kilogram", units |-> <<
        U("milligram", "Milligram", "mg", Dec(1, 1, -6), "metric"),
        U("gram", "Gram", "g", Dec(1, 1, -3), "metric"),
        U("kilogram", "Kilogram", "kg", Dec(1, 1, 0), "metric"),
        U("tonne", "Tonne", "t", Dec(1, 1, 3), "metric"),
        U("ounce", "Ounce", "oz", Dec(283495, 1, -7), "imperial"),
        U("pound", "Pound", "lb", Dec(453592, 1, -6), "imperial"),
        U("stone", "Stone", "st", Dec(635029, 1, -5), "imperial"),
        U("ton", "Ton (US)", "ton", Dec(907185, 1, -3), "imperial") >>],
  [key |-> "volume", name |-> "Volume", icon |-> "U+1F964", baseUnit |-> "liter", units |-> <<
        U("milliliter", "Milliliter", "ml", Dec(1, 1, -3), "metric"),
        U("liter", "Liter", "l", Dec(1, 1, 0), "metric"),
        U("cubicMeter", "Cubic Meter", "m³", Dec(1, 1, 3), "metric"),
        U("fluidOunce", "Fluid Ounce (US)", "fl oz", Dec(295735, 1, -7), "imperial"),
        U("cup", "Cup (US)", "cup", Dec(236588, 1, -6), "imperial"),
        U("pint", "Pint (US)", "pt", Dec(473176, 1, -6), "imperial"),
        U("quart", "Quart (US)", "qt", Dec(946353, 1, -6), "imperial"),
        U("gallon", "Gallon (US)", "gal", Dec(378541, 1, -5), "imperial"),
        U("fluidOunceUK", "Fluid Ounce (UK)", "fl oz (UK)", Dec(284131, 1, -7), "uk-imperial"),
        U("pintUK", "Pint (UK)", "pt (UK)", Dec(568261, 1, -6), "uk-imperial"),
        U("gallonUK", "Gallon (UK)", "gal (UK)", Dec(454609, 1, -5), "uk-imperial") >>],
  [key |-> "temperature", name |-> "Temperature", icon |-> "U+1F321 U+FE0F", baseUnit |-> "celsius", units |-> <<
        U("celsius", "Celsius", "°C", Dec(1, 1, 0), "metric"),
        U("fahrenheit", "Fahrenheit", "°F", Dec(1, 1, 0), "imperial"),
        U("kelvin", "Kelvin", "K", Dec(1, 1, 0), "scientific"),
        U("rankine", "Rankine", "°R", Dec(1, 1, 0), "scientific") >>],
  [key |-> "area", name |-> "Area", icon |-> "U+1F4D0", baseUnit |-> "squareMeter", units |-> <<
        U("squareMillimeter", "Square Millimeter", "mm²", Dec(1, 1, -6), "metric"),
        U("squareCentimeter", "Square Centimeter", "cm²", Dec(1, 1, -4), "metric"),
        U("squareMeter", "Square Meter", "m²", Dec(1, 1, 0), "metric"),
        U("hectare", "Hectare", "ha", Dec(1, 1, 4), "metric"),
        U("squareKilometer", "Square Kilometer", "km²", Dec(1, 1, 6), "metric"),
        U("squareInch", "Square Inch", "in²", Dec(64516, 1, -8), "imperial"),
        U("squareFoot", "Square Foot", "ft²", Dec(92903, 1, -6), "imperial"),
        U("squareYard", "Square Yard", "yd²", Dec(836127, 1, -6), "imperial"),
        U("acre", "Acre", "ac", Dec(404686, 1, -2), "imperial"),
        U("squareMile", "Square Mile", "mi²", Dec(259, 1, 4), "imperial") >>],
  [key |-> "time", name |-> "Time", icon |-> "U+23F0", baseUnit |-> "second", units |-> <<
        U("nanosecond", "Nanosecond", "ns", Dec(1, 1, -9), "scientific"),
        U("microsecond", "Microsecond", "μs", Dec(1, 1, -6), "scientific"),
        U("millisecond", "Millisecond", "ms", Dec(1, 1, -3), "metric"),
        U("second", "Second", "s", Dec(1, 1, 0), "metric"),
        U("minute", "Minute", "min", Dec(6, 1, 1), "common"),
        U("hour", "Hour", "h", Dec(36, 1, 2), "common"),
        U("day", "Day", "d", Dec(864, 1, 2), "common"),
        U("week", "Week", "wk", Dec(6048, 1, 2), "common"),
        U("month", "Month", "mo", Dec(2629746, 1, 0), "common"),
        U("year", "Year", "yr", Dec(31556952, 1, 0), "common") >>],
  [key |-> "speed", name |-> "Speed", icon |-> "U+1F3C3", baseUnit |-> "meterPerSecond", units |-> <<
        U("meterPerSecond", "Meter per Second", "m/s", Dec(1, 1, 0), "metric"),
        U("kilometerPerHour", "Kilometer per Hour", "km/h", Dec(277778, 1, -6), "metric"),
        U("milePerHour", "Mile per Hour", "mph", Dec(44704, 1, -5), "imperial"),
        U("footPerSecond", "Foot per Second", "ft/s", Dec(3048, 1, -4), "imperial"),
        U("knot", "Knot", "kn", Dec(514444, 1, -6), "nautical"),
        U("mach", "Mach", "Ma", Dec(343, 1, 0), "scientific") >>],
  [key |-> "energy", name |-> "Energy", icon |-> "U+26A1", baseUnit |-> "joule", units |-> <<
        U("joule", "Joule", "J", Dec(1, 1, 0), "metric"),
        U("kilojoule", "Kilojoule", "kJ", Dec(1, 1, 3), "metric"),
        U("calorie", "Calorie", "cal", Dec(4184, 1, -3), "metric"),
        U("kilocalorie", "Kilocalorie", "kcal", Dec(4184, 1, 0), "metric"),
        U("wattHour", "Watt Hour", "Wh", Dec(36, 1, 2), "electrical"),
        U("kilowattHour", "Kilowatt Hour", "kWh", Dec(36, 1, 5), "electrical"),
        U("btu", "British Thermal Unit", "BTU", Dec(105506, 1, -2), "imperial") >>] >>


\* the absent value of a string argument
Undefined == "<undefined>"

\* !s for a string argument
Falsy(s) == s \in {"", Undefined}

\* `${s}`
Template(s) == IF s = Undefined THEN "undefined" ELSE s

\* the properties every object literal inherits from Object.prototype
ObjectPrototypeKeys ==
    {"constructor", "__proto__", "hasOwnProperty", "isPrototypeOf",
     "propertyIsEnumerable", "toLocaleString", "toString", "valueOf"}

Elements(seq) == {seq[i] : i \in DOMAIN seq}

KeysOf(seq) == [i \in DOMAIN seq |-> seq[i].key]

\* Object.keys(UNIT_CATEGORIES)
CategoryKeys == KeysOf(registry)

Categories == Elements(registry)

IsCategory(category) == \E c \in Categories : c.key = category

\* the own property UNIT_CATEGORIES[category]
Category(category) == CHOOSE c \in Categories : c.key = category

\* Object.keys(categoryData.units)
UnitKeys(category) == Call1(KeysOf, Category(category).units)

Units(category) == Call1(Elements, Category(category).units)

IsUnit(category, unit) ==
    IsCategory(category) /\ \E u \in Units(category) : u.key = unit

\* the own property UNIT_CATEGORIES[category].units[unit]
Unit(category, unit) == CHOOSE u \in Units(category) : u.key = unit

\* UNIT_CATEGORIES[category] read as a property: "own" for a category of the
\* registry, "inherited" for a property of Object.prototype (a function or
\* object: truthy, with no property `units`), else "undefined"
CategoryLookup(category) ==
    IF IsCategory(category) THEN "own"
    ELSE IF category \in ObjectPrototypeKeys THEN "inherited"
    ELSE "undefined"

\* categoryData.units[unit] read as a property of a category of the registry
UnitLookup(category, unit) ==
    IF IsUnit(category, unit) THEN "own"
    ELSE IF unit \in ObjectPrototypeKeys THEN "inherited"
    ELSE "undefined"

\* unitData.factor: undefined on an inherited property
FactorOf(category, unit) ==
    IF IsUnit(category, unit) THEN Unit(category, unit).factor ELSE UndefinedValue

\* `${unitData.symbol}`
SymbolOf(category, unit) ==
    IF IsUnit(category, unit) THEN Unit(category, unit).symbol ELSE "undefined"

\* the message of the TypeError of undefined[key]
CannotRead(key) == "Cannot read properties of undefined (reading '" \o Template(key) \o "')"

\* a call that returned v; a call that threw an Error with message m
Return(v) == [threw |-> FALSE, value |-> v]

Throw(m) == [threw |-> TRUE, message |-> m]

-----------------------------------------------------------------------------
(* String(number), as in a template literal *)

Zeros[k \in Int] == IF k <= 0 THEN "" ELSE "0" \o Zeros[k - 1]

\* the digits ds (a value 0.ds * 10^p) in decimal or exponent notation
DigitsToString(ds, p) ==
    IF Len(ds) <= p /\ p <= 21 THEN ds \o Zeros[p - Len(ds)]
    ELSE IF 0 < p /\ p <= 21 THEN SubSeq(ds, 1, p) \o "." \o SubSeq(ds, p + 1, Len(ds))
    ELSE IF -6 < p /\ p <= 0 THEN "0." \o Zeros[-p] \o ds
    ELSE SubSeq(ds, 1, 1)
         \o (IF Len(ds) > 1 THEN "." \o SubSeq(ds, 2, Len(ds)) ELSE "")
         \o "e" \o (IF p - 1 > 0 THEN "+" ELSE "") \o ToString(p - 1)

\* a number without a finite decimal expansion is written as its fraction
ValueToString(v) ==
    IF v.type = "undefined" THEN "undefined"
    ELSE IF v.type = "null" THEN "null"
    ELSE IF v.type = "string" THEN v.s
    ELSE IF v.kind # "finite" THEN v.kind
    ELSE IF v.n = 0 THEN "0"
    ELSE IF v.d # 1
         THEN ToString(v.n) \o "/" \o ToString(v.d) \o "e" \o ToString(v.e)
    ELSE (IF v.n < 0 THEN "-" ELSE "")
         \o Call2(DigitsToString, ToString(Abs(v.n)), Len(ToString(Abs(v.n))) + v.e)

\* `${v}`
NumberToString(v) == Call1(ValueToString, v)

-----------------------------------------------------------------------------
(* The conversion engine *)

\* a first switch that leaves out the factor 5/9
ToCelsiusUnscaled(value, fromUnit) ==
    CASE fromUnit = "celsius" -> Return(value)
      [] fromUnit = "fahrenheit" -> Return(JsSub(value, Num(32, 0)))
      [] fromUnit = "kelvin" -> Return(JsSub(value, Num(27315, -2)))
      [] fromUnit = "rankine" -> Return(JsSub(value, Num(49167, -2)))
      [] OTHER -> Throw("Unknown temperature unit: " \o Template(fromUnit))

\* the Celsius value of `value` in fromUnit (the first switch)
ToCelsius(value, fromUnit) ==
    CASE fromUnit = "celsius" -> Return(value)
      [] fromUnit = "fahrenheit" ->
            Return(JsDiv(JsMul(JsSub(value, Num(32, 0)), Num(5, 0)), Num(9, 0)))
      [] fromUnit = "kelvin" -> Return(JsSub(value, Num(27315, -2)))
      [] fromUnit = "rankine" ->
            Return(JsDiv(JsMul(JsSub(value, Num(49167, -2)), Num(5, 0)), Num(9, 0)))
      [] OTHER -> Throw("Unknown temperature unit: " \o Template(fromUnit))

\* the value in toUnit of a Celsius value (the second switch)
FromCelsius(celsius, toUnit) ==
    CASE toUnit = "celsius" -> Return(celsius)
      [] toUnit = "fahrenheit" ->
            Return(JsAdd(JsDiv(JsMul(celsius, Num(9, 0)), Num(5, 0)), Num(32, 0)))
      [] toUnit = "kelvin" -> Return(JsAdd(celsius, Num(27315, -2)))
      [] toUnit = "rankine" ->
            Return(JsAdd(JsDiv(JsMul(celsius, Num(9, 0)), Num(5, 0)), Num(49167, -2)))
      [] OTHER -> Throw("Unknown temperature unit: " \o Template(toUnit))

\* a same-unit path that rounds like the other paths
SameUnitRounded(value) == Return(roundToPrecision(value))

\* if (fromUnit === toUnit) return value
SameUnit(value) == Return(value)

\* return roundToPrecision(result), unless the switch threw
RoundResult(r) == IF r.threw THEN r ELSE Return(roundToPrecision(r.value))

convertTemperature(value, fromUnit, toUnit) ==
    IF fromUnit = toUnit THEN SameUnit(value)
    ELSE Call1(LAMBDA c : IF c.threw THEN c
                          ELSE Call1(RoundResult, FromCelsius(c.value, toUnit)),
               ToCelsius(value, fromUnit))

convertWithFactors(value, fromUnit, toUnit, category) ==
    IF fromUnit = toUnit THEN SameUnit(value)
    ELSE IF CategoryLookup(category) = "undefined"
         THEN Throw("Unknown category: " \o Template(category))
    ELSE IF CategoryLookup(category) = "inherited" THEN Throw(CannotRead(fromUnit))
    ELSE IF UnitLookup(category, fromUnit) = "undefined"
         THEN Throw("Unknown unit '" \o Template(fromUnit) \o "' in category '"
                    \o Template(category) \o "'")
    ELSE IF UnitLookup(category, toUnit) = "undefined"
         THEN Throw("Unknown unit '" \o Template(toUnit) \o "' in category '"
                    \o Template(category) \o "'")
    ELSE Return(roundToPrecision(
             JsDiv(JsMul(value, FactorOf(category, fromUnit)), FactorOf(category, toUnit))))

\* the table `formulas`, keyed by `${fromUnit}-${toUnit}`
TemperatureFormulas(key) ==
    CASE key = "celsius-fahrenheit" -> "°C × 9/5 + 32 = °F"
      [] key = "fahrenheit-celsius" -> "(°F - 32) × 5/9 = °C"
      [] key = "celsius-kelvin" -> "°C + 273.15 = K"
      [] key = "kelvin-celsius" -> "K - 273.15 = °C"
      [] key = "fahrenheit-kelvin" -> "(°F - 32) × 5/9 + 273.15 = K"
      [] key = "kelvin-fahrenheit" -> "(K - 273.15) × 9/5 + 32 = °F"
      [] key = "celsius-rankine" -> "°C × 9/5 + 491.67 = °R"
      [] key = "rankine-celsius" -> "(°R - 491.67) × 5/9 = °C"
      [] key = "fahrenheit-rankine" -> "°F + 459.67 = °R"
      [] key = "rankine-fahrenheit" -> "°R - 459.67 = °F"
      [] key = "kelvin-rankine" -> "K × 9/5 = °R"
      [] key = "rankine-kelvin" -> "°R × 5/9 = K"
      [] OTHER -> ""

\* a lookup with the key built the wrong way round
getTemperatureFormulaReversed(fromUnit, toUnit) ==
    TemperatureFormulas(Template(toUnit) \o "-" \o Template(fromUnit))

\* formulas[`${fromUnit}-${toUnit}`] || ''
getTemperatureFormula(fromUnit, toUnit) ==
    TemperatureFormulas(Template(fromUnit) \o "-" \o Template(toUnit))

getConversionFormula(value, fromUnit, toUnit, category) ==
    IF CategoryLookup(category) = "undefined" THEN Return("")
    ELSE IF CategoryLookup(category) = "inherited" THEN Throw(CannotRead(fromUnit))
    ELSE IF UnitLookup(category, fromUnit) = "undefined"
            \/ UnitLookup(category, toUnit) = "undefined" THEN Return("")
    ELSE IF category = "temperature" THEN Return(getTemperatureFormula(fromUnit, toUnit))
    ELSE Call1(LAMBDA factor :
                 Return(NumberToString(value) \o " " \o SymbolOf(category, fromUnit) \o " = "
                        \o NumberToString(value) \o " × " \o NumberToString(factor) \o " = "
                        \o NumberToString(roundToPrecision(JsMul(value, factor)))
                        \o " " \o SymbolOf(category, toUnit)),
               JsDiv(FactorOf(category, fromUnit), FactorOf(category, toUnit)))

\* a catch branch that echoes the units the wrong way round
FailureSwapped(message, value, fromUnit, toUnit, category) ==
    [success |-> FALSE, error |-> message, originalValue |-> value,
     fromUnit |-> toUnit, toUnit |-> fromUnit, category |-> category]

\* the object of the catch branch
Failure(message, value, fromUnit, toUnit, category) ==
    [success |-> FALSE, error |-> message, originalValue |-> value,
     fromUnit |-> fromUnit, toUnit |-> toUnit, category |-> category]

\* the algorithm convert dispatches to
Dispatch(value, fromUnit, toUnit, category) ==
    IF category = "temperature" THEN convertTemperature(value, fromUnit, toUnit)
    ELSE convertWithFactors(value, fromUnit, toUnit, category)

\* the result object, without its timestamp
convert(value, fromUnit, toUnit, category) ==
    IF value.type # "number" \/ value.kind = "NaN"
    THEN Failure("Value must be a valid number", value, fromUnit, toUnit, category)
    ELSE IF Falsy(fromUnit) \/ Falsy(toUnit) \/ Falsy(category)
    THEN Failure("From unit, to unit, and category are required",
                 value, fromUnit, toUnit, category)
    ELSE IF CategoryLookup(category) = "undefined"
    THEN Failure("Unknown category: " \o Template(category), value, fromUnit, toUnit, category)
    ELSE Call2(LAMBDA r, f :
                 IF r.threw THEN Failure(r.message, value, fromUnit, toUnit, category)
                 ELSE IF f.threw THEN Failure(f.message, value, fromUnit, toUnit, category)
                 ELSE [success |-> TRUE, originalValue |-> value, convertedValue |-> r.value,
                       fromUnit |-> fromUnit, toUnit |-> toUnit, category |-> category,
                       formula |-> f.value],
               Dispatch(value, fromUnit, toUnit, category),
               getConversionFormula(value, fromUnit, toUnit, category))

-----------------------------------------------------------------------------
(* parseFloat *)

DecimalDigits == "0123456789"

\* the character of str at position i, "" past its end
CharAt(str, i) == IF 1 <= i /\ i <= Len(str) THEN SubSeq(str, i, i) ELSE ""

IsDigit(c) == \E k \in 1..10 : SubSeq(DecimalDigits, k, k) = c

DigitValue(c) == (CHOOSE k \in 1..10 : SubSeq(DecimalDigits, k, k) = c) - 1

\* the first position from i on that holds no white space
SkipWhiteSpace[str \in STRING, i \in Nat] ==
    IF CharAt(str, i) = " " THEN SkipWhiteSpace[str, i + 1] ELSE i

\* the first position from i on that holds no digit
DigitsEnd[str \in STRING, i \in Nat] ==
    IF IsDigit(CharAt(str, i)) THEN DigitsEnd[str, i + 1] ELSE i

\* the integer written by the digits of str at positions i .. j - 1
DigitsValue[str \in STRING, i \in Nat, j \in Nat] ==
    IF j <= i THEN 0 ELSE 10 * DigitsValue[str, i, j - 1] + DigitValue(CharAt(str, j - 1))

\* the position after an optional sign at i
AfterSign(str, i) == IF CharAt(str, i) \in {"+", "-"} THEN i + 1 ELSE i

\* the decimal exponent of an ExponentPart at k, 0 if there is none
ExponentAt(str, k) ==
    IF CharAt(str, k) \in {"e", "E"} /\ IsDigit(CharAt(str, AfterSign(str, k + 1)))
    THEN (IF CharAt(str, k + 1) = "-" THEN -1 ELSE 1)
         * DigitsValue[str, AfterSign(str, k + 1), DigitsEnd[str, AfterSign(str, k + 1)]]
    ELSE 0

\* the number written by the digits of str at positions i .. j - 1
DigitsNumber[str \in STRING, i \in Nat, j \in Nat] ==
    IF j <= i THEN Num(0, 0)
    ELSE Plus(Multiply(DigitsNumber[str, i, j - 1], Num(1, 1)),
              Num(DigitValue(CharAt(str, j - 1)), 0))

\* the digits before and after the point, from position i (the end of the
\* integer digits j and the end of the fraction digits k are given)
Mantissa(str, i, j, k) ==
    IF k = j THEN
        IF j = i THEN NaN
        ELSE Multiply(DigitsNumber[str, i, j], Num(1, ExponentAt(str, k)))
    ELSE IF (j - i) + (k - (j + 1)) = 0 THEN NaN
    ELSE Multiply(Plus(DigitsNumber[str, i, j],
                       Multiply(DigitsNumber[str, j + 1, k], Num(1, -(k - (j + 1))))),
                  Num(1, ExponentAt(str, k)))

\* the end of the fraction digits, given the end j of the integer digits
FractionEnd(str, j) == IF CharAt(str, j) = "." THEN DigitsEnd[str, j + 1] ELSE j

\* the longest prefix of str from i that is an unsigned StrDecimalLiteral
UnsignedLiteral(str, i) ==
    IF i + 7 <= Len(str) /\ SubSeq(str, i, i + 7) = "Infinity" THEN PlusInfinity
    ELSE Call2(LAMBDA j, k : Mantissa(str, i, j, k),
               DigitsEnd[str, i], FractionEnd(str, DigitsEnd[str, i]))

\* parseFloat of a string, from its first non-blank position i
SignedLiteral(str, i) ==
    IF CharAt(str, i) = "-" THEN Neg(UnsignedLiteral(str, i + 1))
    ELSE UnsignedLiteral(str, AfterSign(str, i))

\* parseFloat(string)
ParseString(str) == Call2(SignedLiteral, str, SkipWhiteSpace[str, 1])

\* parseFloat(value): the value is converted to a string first
parseFloat(value) == Call1(ParseString, NumberToString(value))

-----------------------------------------------------------------------------
(* The conversion routes *)

\* a JSON object with the fields of a conversion request (an absent string
\* field is Undefined, an absent value UndefinedValue), and the JSON null
Item(value, fromUnit, toUnit, category) ==
    [json |-> "object", value |-> value, fromUnit |-> fromUnit, toUnit |-> toUnit,
     category |-> category]

NullItem == [json |-> "null"]

\* a JSON array, and a value of req.body.conversions that is no array
Array(items) == [json |-> "array", items |-> items]

NotAnArray == [json |-> "undefined"]

\* the message of the TypeError of const { value, ... } = null
CannotDestructure(name) ==
    "Cannot destructure property 'value' of '" \o name \o "' as it is null."

\* res.status(status).json(body)
Response(status, body) == [status |-> status, body |-> body]

\* { index, ...result }: a property of result of the same name wins
WithIndex(index, res) ==
    [f \in {"index"} \cup DOMAIN res |-> IF f \in DOMAIN res THEN res[f] ELSE index]

\* the item of the results of a batch that did not reach convert
ItemError(index, message, conversion) ==
    [index |-> index, success |-> FALSE, error |-> message, conversion |-> conversion]

\* a callback that hands the value to convert as it came
BatchItemUnparsed(conversion, index) ==
    IF conversion.json = "null"
    THEN ItemError(index, CannotDestructure("conversion"), conversion)
    ELSE WithIndex(index, convert(conversion.value, conversion.fromUnit,
                                  conversion.toUnit, conversion.category))

\* the callback of conversions.map
BatchItem(conversion, index) ==
    IF conversion.json = "null"
    THEN ItemError(index, CannotDestructure("conversion"), conversion)
    ELSE Call1(LAMBDA numericValue :
                 IF numericValue.kind = "NaN"
                 THEN ItemError(index, "Invalid value", conversion)
                 ELSE WithIndex(index, convert(numericValue, conversion.fromUnit,
                                               conversion.toUnit, conversion.category)),
               parseFloat(conversion.value))

\* a count of the results that failed
FailureCount(results) == Cardinality({i \in DOMAIN results : ~results[i].success})

\* results.filter(r => r.success).length
SuccessCount(results) == Cardinality({i \in DOMAIN results : results[i].success})

\* the response of an accepted batch, without its timestamp
BatchResponse(results) ==
    Response(200, [success |-> TRUE,
                   totalConversions |-> Len(results),
                   successfulConversions |-> SuccessCount(results),
                   failedConversions |-> Len(results) - SuccessCount(results),
                   results |-> results])

\* the limit of the length of a batch
MaxConversions == 100

\* a map whose index counts from 1
MapBatchItemFromOne(items) == [i \in 1..Len(items) |-> BatchItem(items[i], i)]

\* conversions.map((conversion, index) => ...), index counting from 0
MapBatchItem(items) == [i \in 1..Len(items) |-> BatchItem(items[i], i - 1)]

\* router.post('/batch')
postBatch(conversions) ==
    IF conversions.json # "array"
    THEN Response(400, [error |-> "Conversions must be an array",
                        code |-> "INVALID_CONVERSIONS_FORMAT"])
    ELSE IF Len(conversions.items) = 0
    THEN Response(400, [error |-> "At least one conversion is required",
                        code |-> "EMPTY_CONVERSIONS"])
    ELSE IF Len(conversions.items) > MaxConversions
    THEN Response(400, [error |-> "Maximum 100 conversions allowed per batch",
                        code |-> "TOO_MANY_CONVERSIONS"])
    ELSE Call1(BatchResponse, Call1(MapBatchItem, conversions.items))

\* the response of POST / for the result of convert
ConversionResponse(res) ==
    IF res.success THEN Response(200, res)
    ELSE Response(400, [error |-> res.error, code |-> "CONVERSION_ERROR", details |-> res])

\* !value: undefined, null, and also 0 and NaN count as absent
ValueFalsy(value) ==
    \/ value.type \in {"undefined", "null"}
    \/ value.type = "number" /\ value.kind = "NaN"
    \/ value.type = "number" /\ value.kind = "finite" /\ value.n = 0
    \/ value.type = "string" /\ value.s = ""

\* value === undefined || value === null
ValueAbsent(value) == value.type \in {"undefined", "null"}

\* router.post('/')
postConvert(body) ==
    IF body.json = "null"
    THEN Response(500, [error |-> "Internal server error during conversion",
                        code |-> "INTERNAL_ERROR"])
    ELSE IF ValueAbsent(body.value)
    THEN Response(400, [error |-> "Value is required", code |-> "MISSING_VALUE"])
    ELSE IF Falsy(body.fromUnit)
    THEN Response(400, [error |-> "From unit is required", code |-> "MISSING_FROM_UNIT"])
    ELSE IF Falsy(body.toUnit)
    THEN Response(400, [error |-> "To unit is required", code |-> "MISSING_TO_UNIT"])
    ELSE IF Falsy(body.category)
    THEN Response(400, [error |-> "Category is required", code |-> "MISSING_CATEGORY"])
    ELSE Call1(LAMBDA numericValue :
                 IF numericValue.kind = "NaN"
                 THEN Response(400, [error |-> "Value must be a valid number",
                                     code |-> "INVALID_VALUE"])
                 ELSE Call1(ConversionResponse,
                            convert(numericValue, body.fromUnit, body.toUnit, body.category)),
               parseFloat(body.value))

\* the JSON null in a field that otherwise holds a string
Null == "<null>"

\* array.push(element) if the condition holds
PushIf(array, condition, element) == IF condition THEN Append(array, element) ELSE array

\* the array `errors` of POST /validate after its checks
ValidationErrors(body) ==
    PushIf(PushIf(PushIf(PushIf(PushIf(<<>>,
        ValueAbsent(body.value), "Value is required"),
        ~ValueAbsent(body.value) /\ parseFloat(body.value).kind = "NaN",
            "Value must be a valid number"),
        Falsy(body.fromUnit), "From unit is required"),
        Falsy(body.toUnit), "To unit is required"),
        Falsy(body.category), "Category is required")

\* a trial conversion of the value as it came, without parseFloat
TrialConversionUnparsed(body) ==
    convert(body.value, body.fromUnit, body.toUnit, body.category)

\* the trial conversion of POST /validate
TrialConversion(body) ==
    convert(parseFloat(body.value), body.fromUnit, body.toUnit, body.category)

\* router.post('/validate'), without the timestamp
postValidate(body) ==
    IF body.json = "null"
    THEN Response(500, [error |-> "Internal server error during validation",
                        code |-> "INTERNAL_ERROR"])
    ELSE Call1(LAMBDA errors :
                 IF Len(errors) = 0
                 THEN Call1(LAMBDA res :
                              Response(200, [valid |-> res.success, errors |-> errors,
                                             conversionValid |-> res.success,
                                             conversionError |->
                                                 IF res.success THEN Null ELSE res.error]),
                            TrialConversion(body))
                 ELSE Response(200, [valid |-> FALSE, errors |-> errors,
                                     conversionValid |-> FALSE, conversionError |-> Null]),
               ValidationErrors(body))

-----------------------------------------------------------------------------
(* The registry lookups of the engine *)

\* the message of the TypeError of Object.keys(undefined)
CannotConvert == "Cannot convert undefined or null to object"

\* { key: key, ...categoryData.units[key] }
UnitRecord(unit) ==
    [key |-> unit.key, name |-> unit.name, symbol |-> unit.symbol,
     factor |-> unit.factor, category |-> unit.category]

\* Object.keys(categoryData.units).map(key => ...)
UnitRecords(units) == [i \in DOMAIN units |-> UnitRecord(units[i])]

getUnitsForCategory(category) ==
    IF CategoryLookup(category) = "undefined"
    THEN Throw("Unknown category: " \o Template(category))
    ELSE IF CategoryLookup(category) = "inherited" THEN Throw(CannotConvert)
    ELSE Call1(LAMBDA categoryData :
                 Return([category |-> category, name |-> categoryData.name,
                         icon |-> categoryData.icon, baseUnit |-> categoryData.baseUnit,
                         units |-> UnitRecords(categoryData.units)]),
               Category(category))

\* the summary of a category
Summary(categoryData) ==
    [key |-> categoryData.key, name |-> categoryData.name, icon |-> categoryData.icon,
     baseUnit |-> categoryData.baseUnit, unitCount |-> Len(categoryData.units)]

\* a list of the summaries in the reverse of the declaration order
getAllCategoriesReversed ==
    [i \in DOMAIN registry |-> Summary(registry[Len(registry) + 1 - i])]

getAllCategories == [i \in DOMAIN registry |-> Summary(registry[i])]

-----------------------------------------------------------------------------
(* The category routes *)

UpperCaseLetters == "ABCDEFGHIJKLMNOPQRSTUVWXYZ"

LowerCaseLetters == "abcdefghijklmnopqrstuvwxyz"

\* the lower case of a character (the letters A-Z; the other characters of
\* the registry have no lower case of their own)
LowerCaseOf(c) ==
    IF \E k \in 1..26 : SubSeq(UpperCaseLetters, k, k) = c
    THEN SubSeq(LowerCaseLetters, CHOOSE k \in 1..26 : SubSeq(UpperCaseLetters, k, k) = c,
                CHOOSE k \in 1..26 : SubSeq(UpperCaseLetters, k, k) = c)
    ELSE c

\* str.toLowerCase()
toLowerCase[str \in STRING] ==
    IF str = "" THEN ""
    ELSE toLowerCase[SubSeq(str, 1, Len(str) - 1)] \o LowerCaseOf(SubSeq(str, Len(str), Len(str)))

\* str.includes(searchTerm)
Includes(str, searchTerm) ==
    \E i \in 1..(Len(str) - Len(searchTerm) + 1) :
        SubSeq(str, i, i + Len(searchTerm) - 1) = searchTerm

HexDigits == "0123456789abcdef"

IsHexDigit(c) == \E k \in 1..16 : SubSeq(HexDigits, k, k) = LowerCaseOf(c)

HexDigitValue(c) == (CHOOSE k \in 1..16 : SubSeq(HexDigits, k, k) = LowerCaseOf(c)) - 1

\* the first position from i on that holds no hexadecimal digit
HexDigitsEnd[str \in STRING, i \in Nat] ==
    IF IsHexDigit(CharAt(str, i)) THEN HexDigitsEnd[str, i + 1] ELSE i

\* the integer written by the hexadecimal digits at positions i .. j - 1
HexDigitsValue[str \in STRING, i \in Nat, j \in Nat] ==
    IF j <= i THEN 0
    ELSE 16 * HexDigitsValue[str, i, j - 1] + HexDigitValue(CharAt(str, j - 1))

\* the digits of an integer from position i: hexadecimal after 0x, else decimal
UnsignedInteger(str, i) ==
    IF CharAt(str, i) = "0" /\ CharAt(str, i + 1) \in {"x", "X"}
    THEN IF HexDigitsEnd[str, i + 2] = i + 2 THEN NaN
         ELSE Num(HexDigitsValue[str, i + 2, HexDigitsEnd[str, i + 2]], 0)
    ELSE IF DigitsEnd[str, i] = i THEN NaN
    ELSE DigitsNumber[str, i, DigitsEnd[str, i]]

\* parseInt of a string, from its first non-blank position i
SignedInteger(str, i) ==
    IF CharAt(str, i) = "-" THEN Neg(UnsignedInteger(str, i + 1))
    ELSE UnsignedInteger(str, AfterSign(str, i))

\* parseInt(string)
ParseIntString(str) == Call2(SignedInteger, str, SkipWhiteSpace[str, 1])

\* parseInt(value): the value is converted to a string first
parseInt(value) == Call1(ParseIntString, NumberToString(value))

\* the integer value of a number whose value is an integer
IntegerOf(v) == v.n * Pow10[v.e]

\* Math.min(parseInt(limit) || 10, 50), for a limit that is a query string
\* or absent (the default 10)
MaxResults(limit) ==
    Call1(LAMBDA parsed :
            IF parsed.kind = "NaN" \/ parsed.n = 0 THEN 10
            ELSE IF Sign(parsed) > 0 /\ (parsed.e > 1 \/ IntegerOf(parsed) > 50) THEN 50
            ELSE IntegerOf(parsed),
          parseInt(IF limit = Undefined THEN Num(10, 0) ELSE Str(limit)))

\* array.slice(0, end)
Slice(array, end) ==
    IF end >= 0 THEN SubSeq(array, 1, Min(end, Len(array)))
    ELSE SubSeq(array, 1, Len(array) + end)

\* array.filter(Keep), in the order of the array
Filter(array, Keep(_)) ==
    LET F[i \in 0..Len(array)] ==
            IF i = 0 THEN <<>>
            ELSE IF Keep(array[i]) THEN Append(F[i - 1], array[i]) ELSE F[i - 1]
    IN F[Len(array)]

\* the test of the search: name, symbol or key holds the term
Matches(unit, searchTerm) ==
    \/ Includes(toLowerCase[unit.name], searchTerm)
    \/ Includes(toLowerCase[unit.symbol], searchTerm)
    \/ Includes(toLowerCase[unit.key], searchTerm)

\* the catch branch of the category routes, for an error with `message`
CategoryError(message, internal) ==
    IF Includes(message, "Unknown category")
    THEN Response(404, [error |-> message, code |-> "CATEGORY_NOT_FOUND"])
    ELSE Response(500, [error |-> internal, code |-> "INTERNAL_ERROR"])

\* router.get('/'), without the timestamp
getCategories ==
    Call1(LAMBDA categories :
            Response(200, [success |-> TRUE, count |-> Len(categories),
                           categories |-> categories]),
          getAllCategories)

\* router.get('/:category'), without the timestamp; a route parameter is a
\* non-empty string
getCategory(category) ==
    Call1(LAMBDA r :
            IF r.threw
            THEN CategoryError(r.message,
                               "Internal server error while fetching category units")
            ELSE Response(200, [success |-> TRUE, category |-> r.value.category,
                                name |-> r.value.name, icon |-> r.value.icon,
                                baseUnit |-> r.value.baseUnit, units |-> r.value.units]),
          getUnitsForCategory(category))

\* categoryData.units.find(u => u.key === unit), <<>> standing for undefined
Find(units, unit) == Filter(units, LAMBDA u : u.key = unit)

\* router.get('/:category/units/:unit'), without the timestamp
getUnit(category, unit) ==
    Call1(LAMBDA r :
            IF r.threw
            THEN CategoryError(r.message,
                               "Internal server error while fetching unit information")
            ELSE IF Find(r.value.units, unit) = <<>>
            THEN Response(404, [error |-> "Unit '" \o unit \o "' not found in category '"
                                          \o category \o "'",
                                code |-> "UNIT_NOT_FOUND"])
            ELSE Response(200, [success |-> TRUE, category |-> category,
                                categoryName |-> r.value.name,
                                categoryIcon |-> r.value.icon,
                                unit |-> Head(Find(r.value.units, unit))]),
          getUnitsForCategory(category))

\* the 200 response of the search
SearchResponse(category, categoryName, q, matchingUnits) ==
    Response(200, [success |-> TRUE, category |-> category, categoryName |-> categoryName,
                   searchQuery |-> q, resultCount |-> Len(matchingUnits),
                   units |-> matchingUnits])

\* router.get('/:category/search'), without the timestamp; q and limit are
\* query strings or absent
searchUnits(category, q, limit) ==
    IF Falsy(q)
    THEN Response(400, [error |-> "Search query (q) parameter is required",
                        code |-> "MISSING_QUERY"])
    ELSE Call1(LAMBDA r :
                 IF r.threw
                 THEN CategoryError(r.message,
                                    "Internal server error while searching units")
                 ELSE SearchResponse(category, r.value.name, q,
                          Slice(Filter(r.value.units,
                                       LAMBDA unit : Matches(unit, toLowerCase[q])),
                                MaxResults(limit))),
               getUnitsForCategory(category))

-----------------------------------------------------------------------------
(* The favorites of the browser app (public/js/favorites.js).  A favorite is *)
(* a record [id, name, category, fromUnit, toUnit, createdAt, lastUsed,     *)
(* useCount]; this.favorites is a sequence of favorites, the newest first.  *)
(* An operation of the manager is an operator that returns the list after   *)
(* the operation, whether it reached saveFavorites, and what it returned or *)
(* threw up to there.                                                       *)

\* CONFIG.UI.MAX_FAVORITES
MAX_FAVORITES == 50

\* CONFIG.generateId(): the k-th identifier generated (identifiers are taken
\* to be unique)
Id(k) == "id" \o ToString(k)

\* CONFIG.getTimestamp() at the time t
Timestamp(t) == "T" \o ToString(t)

\* the last position up to j that holds no white space
TrimEnd[str \in STRING, j \in Nat] ==
    IF j >= 1 /\ CharAt(str, j) = " " THEN TrimEnd[str, j - 1] ELSE j

\* str.trim()
Trim(str) ==
    IF SkipWhiteSpace[str, 1] > TrimEnd[str, Len(str)] THEN ""
    ELSE SubSeq(str, SkipWhiteSpace[str, 1], TrimEnd[str, Len(str)])

Favorite(id, name, category, fromUnit, toUnit, createdAt, lastUsed, useCount) ==
    [id |-> id, name |-> name, category |-> category, fromUnit |-> fromUnit,
     toUnit |-> toUnit, createdAt |-> createdAt, lastUsed |-> lastUsed,
     useCount |-> useCount]

\* what an operation did up to its call of saveFavorites (save = TRUE) or up
\* to its return or throw before it (save = FALSE); ids: the number of
\* identifiers it generated
Done(list, save, ids, threw, message, value) ==
    [favorites |-> list, save |-> save, ids |-> ids, threw |-> threw,
     message |-> message, value |-> value]

\* the positions of the favorites of the list that satisfy Test
Positions(list, Test(_)) == {i \in DOMAIN list : Test(list[i])}

\* the least element of a non-empty set of positions
First(positions) == CHOOSE i \in positions : \A j \in positions : i <= j

\* the test of addFavorite and isFavorited
SameConversion(fav, category, fromUnit, toUnit) ==
    fav.category = category /\ fav.fromUnit = fromUnit /\ fav.toUnit = toUnit

\* isFavorited(category, fromUnit, toUnit) is not null
isFavorited(list, category, fromUnit, toUnit) ==
    Positions(list, LAMBDA fav : SameConversion(fav, category, fromUnit, toUnit)) # {}

\* list.push(...items): the items behind the list
Push(list, items) == list \o items

\* list.unshift(...items): the items in front of the list, in their order
Unshift(list, items) == items \o list

\* addFavorite without the test of the limit
addFavoriteUnlimited(list, name, category, fromUnit, toUnit, id, now) ==
    IF Falsy(name) \/ Falsy(category) \/ Falsy(fromUnit) \/ Falsy(toUnit)
    THEN Done(list, FALSE, 0, TRUE, "All fields are required", Null)
    ELSE IF Len(name) > 100
    THEN Done(list, FALSE, 0, TRUE, "Name must be 100 characters or less", Null)
    ELSE IF fromUnit = toUnit
    THEN Done(list, FALSE, 0, TRUE, "From unit and to unit cannot be the same", Null)
    ELSE IF isFavorited(list, category, fromUnit, toUnit)
    THEN Done(list, FALSE, 0, TRUE, "This conversion is already in your favorites", Null)
    ELSE Call1(LAMBDA favorite : Done(Unshift(list, <<favorite>>), TRUE, 1, FALSE, "", favorite),
               Favorite(id, Trim(name), category, fromUnit, toUnit, now, now, 0))

\* addFavorite(name, category, fromUnit, toUnit), with the identifier and the
\* timestamp it draws
addFavorite(list, name, category, fromUnit, toUnit, id, now) ==
    IF Falsy(name) \/ Falsy(category) \/ Falsy(fromUnit) \/ Falsy(toUnit)
    THEN Done(list, FALSE, 0, TRUE, "All fields are required", Null)
    ELSE IF Len(name) > 100
    THEN Done(list, FALSE, 0, TRUE, "Name must be 100 characters or less", Null)
    ELSE IF fromUnit = toUnit
    THEN Done(list, FALSE, 0, TRUE, "From unit and to unit cannot be the same", Null)
    ELSE IF isFavorited(list, category, fromUnit, toUnit)
    THEN Done(list, FALSE, 0, TRUE, "This conversion is already in your favorites", Null)
    ELSE IF Len(list) >= MAX_FAVORITES
    THEN Done(list, FALSE, 0, TRUE,
              "Maximum " \o ToString(MAX_FAVORITES) \o " favorites allowed", Null)
    ELSE Call1(LAMBDA favorite : Done(Unshift(list, <<favorite>>), TRUE, 1, FALSE, "", favorite),
               Favorite(id, Trim(name), category, fromUnit, toUnit, now, now, 0))

\* this.favorites.splice(index, 1)
Splice(list, index) == SubSeq(list, 1, index - 1) \o SubSeq(list, index + 1, Len(list))

\* removeFavorite(id)
removeFavorite(list, id) ==
    IF Positions(list, LAMBDA fav : fav.id = id) = {}
    THEN Done(list, FALSE, 0, FALSE, "", FALSE)
    ELSE Done(Splice(list, First(Positions(list, LAMBDA fav : fav.id = id))),
              TRUE, 0, FALSE, "", TRUE)

\* Object.assign(target, source)
Assign(target, source) ==
    [f \in DOMAIN target \cup DOMAIN source |->
        IF f \in DOMAIN source THEN source[f] ELSE target[f]]

\* the list with Change applied to the first favorite whose id is `id`
WithFound(list, id, Change(_)) ==
    IF Positions(list, LAMBDA fav : fav.id = id) = {}
    THEN Done(list, FALSE, 0, FALSE, "", Null)
    ELSE Call1(LAMBDA index :
                 Done([list EXCEPT ![index] = Change(list[index])], TRUE, 0, FALSE, "",
                      Change(list[index])),
               First(Positions(list, LAMBDA fav : fav.id = id)))

\* updateFavorite(id, updates)
updateFavorite(list, id, updates) ==
    WithFound(list, id, LAMBDA favorite : Assign(favorite, updates))

\* useFavorite(id), with the timestamp it draws
useFavorite(list, id, now) ==
    WithFound(list, id,
              LAMBDA favorite : [favorite EXCEPT !.useCount = favorite.useCount + 1,
                                                 !.lastUsed = now])

\* clearFavorites()
clearFavorites == Done(<<>>, TRUE, 0, FALSE, "", Null)

\* an entry of the array `favorites` of an export file: a JSON object whose
\* name and useCount are JSON values and whose other fields are strings or
\* absent, or the JSON null
Entry(name, category, fromUnit, toUnit, createdAt, lastUsed, useCount) ==
    [json |-> "object", name |-> name, category |-> category, fromUnit |-> fromUnit,
     toUnit |-> toUnit, createdAt |-> createdAt, lastUsed |-> lastUsed,
     useCount |-> useCount]

NullEntry == [json |-> "null"]

\* an export file with the array `favorites`, and a file without it
ExportData(entries) == [json |-> "object", favorites |-> Array(entries)]

NoExportData == [json |-> "object", favorites |-> NotAnArray]

\* `${index}: ` at the head of an error of the import
AtIndex(index) == "Favorite at index " \o ToString(index) \o ": "

\* parseInt(fav.useCount) || 0
UseCountOf(useCount) ==
    Call1(LAMBDA parsed : IF parsed.kind = "NaN" THEN 0 ELSE IntegerOf(parsed),
          IF useCount.type \in {"undefined", "null"} THEN NaN ELSE parseInt(useCount))

\* the state of the loop of importFavorites: the arrays imported, errors and
\* existing, and the number of identifiers generated
Importing(imported, errors, existing, ids) ==
    [imported |-> imported, errors |-> errors, existing |-> existing, ids |-> ids]

\* the callback of exportData.favorites.forEach, for the entry fav at index
ImportEntry(list, acc, fav, index, firstId, now) ==
    IF fav.json = "null"
    THEN [acc EXCEPT !.errors = Append(@, AtIndex(index)
                         \o "Cannot read properties of null (reading 'name')")]
    ELSE IF ValueFalsy(fav.name) \/ Falsy(fav.category) \/ Falsy(fav.fromUnit)
              \/ Falsy(fav.toUnit)
    THEN [acc EXCEPT !.errors = Append(@, AtIndex(index) \o "Missing required fields")]
    ELSE IF fav.fromUnit = fav.toUnit
    THEN [acc EXCEPT !.errors = Append(@, AtIndex(index)
                         \o "From unit and to unit cannot be the same")]
    ELSE IF isFavorited(list, fav.category, fav.fromUnit, fav.toUnit)
    THEN [acc EXCEPT !.existing = Append(@, fav.name)]
    ELSE IF Len(list) + Len(acc.imported) >= MAX_FAVORITES
    THEN [acc EXCEPT !.errors = Append(@, "Maximum " \o ToString(MAX_FAVORITES)
                                            \o " favorites allowed")]
    ELSE IF fav.name.type # "string"
    THEN [acc EXCEPT !.errors = Append(@, AtIndex(index)
                                            \o "fav.name.trim is not a function"),
                     !.ids = @ + 1]
    ELSE [acc EXCEPT !.imported = Append(@,
                         Favorite(Id(firstId + acc.ids), Trim(fav.name.s), fav.category,
                                  fav.fromUnit, fav.toUnit,
                                  IF Falsy(fav.createdAt) THEN now ELSE fav.createdAt,
                                  IF Falsy(fav.lastUsed) THEN now ELSE fav.lastUsed,
                                  UseCountOf(fav.useCount))),
                     !.ids = @ + 1]

\* exportData.favorites.forEach(...), from empty arrays
ImportEntries(list, entries, firstId, now) ==
    LET Loop[i \in 0..Len(entries)] ==
            IF i = 0 THEN Importing(<<>>, <<>>, <<>>, 0)
            ELSE ImportEntry(list, Loop[i - 1], entries[i], i - 1, firstId, now)
    IN Loop[Len(entries)]

\* the value importFavorites returns
ImportResult(acc) ==
    [imported |-> Len(acc.imported), existing |-> Len(acc.existing),
     errors |-> Len(acc.errors), errorDetails |-> acc.errors,
     existingNames |-> acc.existing]

\* importFavorites(exportData), with the first of the identifiers and the
\* timestamp it draws
importFavorites(list, exportData, firstId, now) ==
    IF exportData.json = "null" \/ exportData.favorites.json # "array"
    THEN Done(list, FALSE, 0, TRUE, "Invalid export data", Null)
    ELSE Call1(LAMBDA acc : Done(Unshift(list, acc.imported), TRUE, acc.ids, FALSE, "",
                                 ImportResult(acc)),
               ImportEntries(list, exportData.favorites.items, firstId, now))

-----------------------------------------------------------------------------
(* The configuration of the browser app (CONFIG) *)

\* CONFIG.ERRORS
ERRORS ==
    [NETWORK |-> "Network error. Please check your connection and try again.",
     SERVER |-> "Server error. Please try again later.",
     VALIDATION |-> "Please check your input and try again.",
     NOT_FOUND |-> "The requested resource was not found.",
     RATE_LIMIT |-> "Too many requests. Please wait a moment and try again.",
     GENERIC |-> "An unexpected error occurred. Please try again."]

\* CONFIG.getErrorMessage(status)
getErrorMessage(status) ==
    CASE status = 400 -> ERRORS.VALIDATION
      [] status = 404 -> ERRORS.NOT_FOUND
      [] status = 429 -> ERRORS.RATE_LIMIT
      [] status \in {500, 502, 503, 504} -> ERRORS.SERVER
      [] OTHER -> IF status >= 400 /\ status < 500 THEN ERRORS.VALIDATION
                  ELSE IF status >= 500 THEN ERRORS.SERVER
                  ELSE ERRORS.GENERIC

\* the number of digits of the integer n
DigitCount(n) == Len(ToString(Abs(n)))

\* the position p of the decimal point of a finite number v # 0 with a
\* finite decimal expansion: |v| = 0.ds * 10^p for its digits ds
PointOf(v) == DigitCount(v.n) + v.e

\* the nearest integer to N / D for N >= 0, D > 0, a tie going up
NearestUp(N, D) == (N \div D) + (IF 2 * (N % D) >= D THEN 1 ELSE 0)

\* the seven digits of the mantissa of n in exponent notation, as an integer
\* (10^7 when the rounding carries)
MantissaOf(n) ==
    IF DigitCount(n) <= 7 THEN Abs(n) * Pow10[7 - DigitCount(n)]
    ELSE NearestUp(Abs(n), Pow10[DigitCount(n) - 7])

\* value.toExponential(6) of a finite value # 0 with a finite expansion
toExponential(v) ==
    Call2(LAMBDA m, x :
            (IF v.n < 0 THEN "-" ELSE "")
            \o SubSeq(ToString(m), 1, 1) \o "." \o SubSeq(ToString(m), 2, 7)
            \o "e" \o (IF x >= 0 THEN "+" ELSE "") \o ToString(x),
          IF MantissaOf(v.n) = Pow10[7] THEN Pow10[6] ELSE MantissaOf(v.n),
          IF MantissaOf(v.n) = Pow10[7] THEN PointOf(v) ELSE PointOf(v) - 1)

\* parseFloat(value.toFixed(10)) of a finite value with a finite expansion
toFixed(v) ==
    IF v.e >= -Decimals THEN v
    ELSE IF -v.e - Decimals > 9 THEN Num(0, 0)
    ELSE Num((IF v.n < 0 THEN -1 ELSE 1) * NearestUp(Abs(v.n), Pow10[-v.e - Decimals]),
             -Decimals)

\* CONFIG.formatNumber(value)
formatNumber(value) ==
    IF value.type # "number" THEN "Invalid"
    ELSE IF value.kind = "NaN" THEN "Invalid"
    ELSE IF value.kind # "finite" THEN value.kind
    ELSE IF value.n = 0 THEN "0"
    ELSE IF value.d # 1 THEN NumberToString(value)
    ELSE IF PointOf(value) >= 7 \/ PointOf(value) <= -6 THEN toExponential(value)
    ELSE NumberToString(toFixed(value))

\* numValue < CONFIG.CONVERSION.MIN_VALUE || numValue > CONFIG.CONVERSION.MAX_VALUE,
\* the limits being -1e15 and 1e15
OutOfRange(v) ==
    IF v.kind # "finite" THEN TRUE
    ELSE IF v.n = 0 THEN FALSE
    ELSE IF PointOf(v) >= 17 THEN TRUE
    ELSE PointOf(v) = 16 /\ Abs(v.n) # Pow10[DigitCount(v.n) - 1]

\* CONFIG.validateValue(value)
validateValue(value) ==
    Call1(LAMBDA numValue :
            IF numValue.kind = "NaN"
            THEN [valid |-> FALSE, error |-> "Please enter a valid number"]
            ELSE IF OutOfRange(numValue)
            THEN [valid |-> FALSE,
                  error |-> "Value must be between -1000000000000000 and 1000000000000000"]
            ELSE [valid |-> TRUE, value |-> numValue],
          parseFloat(value))

-----------------------------------------------------------------------------
(* The API service of the browser app (public/js/api.js).  What fetch gives  *)
(* is a record: no response (the promise rejects), or a response with a     *)
(* status and a body that is a JSON object, the JSON null, or no JSON.      *)

\* fetch rejected: no HTTP response was received
NoResponse == [received |-> FALSE]

\* a response whose body is the JSON object data
JsonResponse(status, data) ==
    [received |-> TRUE, status |-> status, json |-> "object", data |-> data]

\* a response whose body is the JSON null
NullResponse(status) == [received |-> TRUE, status |-> status, json |-> "null"]

\* a response whose body is no JSON (an HTML page, a text, nothing)
TextResponse(status) == [received |-> TRUE, status |-> status, json |-> "none"]

\* response.ok
Ok(response) == response.status >= 200 /\ response.status <= 299

\* new ApiError(message, status)
ApiError(message, status) == [name |-> "ApiError", message |-> message, status |-> status]

\* throw error
ThrowError(error) == [threw |-> TRUE, error |-> error]

\* the ApiError of the catch branch of request
NetworkError == ThrowError(ApiError(ERRORS.NETWORK, 0))

\* data.error || CONFIG.getErrorMessage(response.status)
ErrorMessageOf(data, status) ==
    IF "error" \in DOMAIN data
    THEN IF data.error = "" THEN getErrorMessage(status) ELSE data.error
    ELSE getErrorMessage(status)

\* ApiService.request(url, options), for what fetch gave
request(response) ==
    IF ~response.received THEN NetworkError
    ELSE IF response.json = "none" THEN NetworkError
    ELSE IF ~Ok(response)
    THEN IF response.json = "null" THEN NetworkError
         ELSE ThrowError(ApiError(ErrorMessageOf(response.data, response.status),
                                  response.status))
    ELSE Return(IF response.json = "null" THEN NullValue ELSE response.data)

\* ApiError.getUserMessage()
getUserMessage(error) ==
    IF error.status = 0 THEN ERRORS.NETWORK
    ELSE IF error.status = 429 THEN ERRORS.RATE_LIMIT
    ELSE IF error.status >= 500 THEN ERRORS.SERVER
    ELSE IF error.message = "" THEN ERRORS.GENERIC
    ELSE error.message

-----------------------------------------------------------------------------
(* The browser app (public/js/app.js).  A page is the record of the app's   *)
(* fields, of the elements of the document it reads and writes, of the      *)
(* requests it has sent and that are not yet answered, and of the last      *)
(* toast it showed; every method is an operator from pages to pages.        *)

\* this.lastConversion = null
NoConversion == [json |-> "null"]

\* no toast yet
NoToast == [type |-> "", message |-> ""]

\* ui.showError(message), ui.showWarning(message)
showToast(P, message, type) ==
    [P EXCEPT !.notification = [type |-> type, message |-> message]]

\* element.field = v, for the elements of the document
SetElement(P, field, v) == [P EXCEPT !.elements[field] = v]

\* select.value = key: a key that is no option leaves nothing selected
Select(P, select, key) ==
    SetElement(P, select,
               IF \E i \in DOMAIN P.elements.options : P.elements.options[i] = key
               THEN key ELSE "")

\* UnitConverterApp.updateFavoriteButton()
updateFavoriteButton(P) ==
    IF \/ P.app.currentCategory = Null
       \/ P.elements.fromUnit = ""
       \/ P.elements.toUnit = ""
       \/ P.elements.fromUnit = P.elements.toUnit
    THEN [P EXCEPT !.elements.favoriteButton.display = "none"]
    ELSE [P EXCEPT !.elements.favoriteButton =
            [display |-> "flex",
             active |-> isFavorited(favorites, P.app.currentCategory,
                                    P.elements.fromUnit, P.elements.toUnit)]]

\* UnitConverterApp.populateUnitSelects(units)
populateUnitSelects(P, units) ==
    [P EXCEPT !.elements.options = KeysOf(units),
              !.elements.fromUnit = IF Len(units) > 0 THEN units[1].key ELSE "",
              !.elements.toUnit = IF Len(units) > 1 THEN units[2].key
                                  ELSE IF Len(units) > 0 THEN units[1].key ELSE ""]

\* UnitConverterApp.showConversionInterface(categoryData)
showConversionInterface(P, categoryData) ==
    updateFavoriteButton(
        [populateUnitSelects(P, categoryData.units)
            EXCEPT !.elements.conversionTitle = categoryData.name \o " Converter",
                   !.elements.conversionInterface = "block",
                   !.elements.categoryGrid = "none"])

\* UnitConverterApp.clearConversion()
clearConversion(P) ==
    updateFavoriteButton(
        [P EXCEPT !.elements.fromValue = "",
                  !.elements.toValue = "",
                  !.elements.conversionResult = "none",
                  !.app.lastConversion = NoConversion])

\* UnitConverterApp.goBackToCategories()
goBackToCategories(P) ==
    clearConversion(
        [P EXCEPT !.elements.conversionInterface = "none",
                  !.elements.categoryGrid = "block",
                  !.app.currentCategory = Null,
                  !.app.currentUnits = <<>>])

\* UnitConverterApp.getUnitSymbol(unitKey)
getUnitSymbol(P, unitKey) ==
    IF \E i \in DOMAIN P.app.currentUnits : P.app.currentUnits[i].key = unitKey
    THEN P.app.currentUnits[CHOOSE i \in DOMAIN P.app.currentUnits :
                                /\ P.app.currentUnits[i].key = unitKey
                                /\ \A j \in 1..(i - 1) : P.app.currentUnits[j].key # unitKey].symbol
    ELSE unitKey

\* UnitConverterApp.displayConversionResult(result)
displayConversionResult(P, conversion) ==
    [P EXCEPT !.elements.toValue = formatNumber(conversion.convertedValue),
              !.elements.resultValue =
                  formatNumber(conversion.originalValue) \o " "
                  \o getUnitSymbol(P, conversion.fromUnit) \o " = "
                  \o formatNumber(conversion.convertedValue) \o " "
                  \o getUnitSymbol(P, conversion.toUnit),
              !.elements.resultFormula = conversion.formula,
              !.elements.conversionResult = "block"]

\* the body of api.convert(value, fromUnit, toUnit, category) on the wire: a
\* category that is null reaches the route as a falsy category
ConvertBody(value, fromUnit, toUnit, category) ==
    Item(value, fromUnit, toUnit, IF category = Null THEN Undefined ELSE category)

\* the request of api.convert and of api.getCategoryUnits
ConvertRequest(body) == [kind |-> "convert", body |-> body]

UnitsRequest(category) == [kind |-> "units", category |-> category]

\* ui.setButtonLoading(this.elements.convertButton, loading)
setButtonLoading(P, loading) == [P EXCEPT !.elements.convertButton.disabled = loading]

\* the finally block of performConversion
Finally(P) == setButtonLoading([P EXCEPT !.app.isConverting = FALSE], FALSE)

\* a guard that lets every call through
NeverConverting(P) == FALSE

\* this.isConverting, as the first line of performConversion reads it
IsConverting(P) == P.app.isConverting

\* UnitConverterApp.performConversion(), up to its await
performConversion(P) ==
    IF IsConverting(P) THEN P
    ELSE Call1(LAMBDA value :
           Call1(LAMBDA validation :
             IF ~validation.valid
             THEN Finally(showToast(P, validation.error, "error"))
             ELSE IF P.elements.fromUnit = "" \/ P.elements.toUnit = ""
             THEN Finally(showToast(P, "Please select both units", "error"))
             ELSE IF P.elements.fromUnit = P.elements.toUnit
             THEN Finally(SetElement(showToast(P, "From unit and to unit are the same",
                                               "warning"),
                                     "toValue", NumberToString(value)))
             ELSE [setButtonLoading(P, TRUE)
                      EXCEPT !.app.isConverting = TRUE,
                             !.requests = Append(@,
                                 ConvertRequest(ConvertBody(validation.value,
                                                            P.elements.fromUnit,
                                                            P.elements.toUnit,
                                                            P.app.currentCategory)))],
             validateValue(value)),
           parseFloat(Str(P.elements.fromValue)))

\* UnitConverterApp.performConversion(), from its await on: `answer` is what
\* api.convert returned or threw
Converted(P, answer) ==
    Finally(
        IF answer.threw
        THEN showToast(P, getUserMessage(answer.error), "error")
        ELSE IF answer.value = NullValue
        THEN showToast(P, "Conversion failed", "error")
        ELSE IF "success" \in DOMAIN answer.value /\ answer.value.success
        THEN updateFavoriteButton(
                 [displayConversionResult(P, answer.value)
                     EXCEPT !.app.lastConversion = answer.value])
        ELSE showToast(P, IF "error" \in DOMAIN answer.value /\ answer.value.error # ""
                          THEN answer.value.error ELSE "Conversion failed", "error"))

\* UnitConverterApp.selectCategory(category), up to its await
selectCategory(P, category) ==
    [P EXCEPT !.elements.loadingOverlay = "flex",
              !.requests = Append(@, UnitsRequest(category))]

\* UnitConverterApp.selectCategory(category), from its await on
Selected(P, category, answer) ==
    IF answer.threw \/ answer.value = NullValue
    THEN [showToast(P, "Failed to load units for this category", "error")
             EXCEPT !.elements.loadingOverlay = "none"]
    ELSE [showConversionInterface(
              [P EXCEPT !.app.currentCategory = category,
                        !.app.currentUnits = answer.value.units],
              answer.value)
             EXCEPT !.elements.loadingOverlay = "none"]

\* UnitConverterApp.swapUnits()
swapUnits(P) ==
    Call1(LAMBDA swapped :
            IF swapped.elements.fromValue # "" THEN performConversion(swapped) ELSE swapped,
          updateFavoriteButton(
              Call1(LAMBDA units :
                      IF P.elements.fromValue # "" /\ P.elements.toValue # ""
                      THEN [units EXCEPT !.elements.fromValue = P.elements.toValue,
                                         !.elements.toValue = P.elements.fromValue]
                      ELSE units,
                    Select(Select(P, "fromUnit", P.elements.toUnit),
                           "toUnit", P.elements.fromUnit))))

\* the callback of ui.debounceInput(this.elements.fromValue, ...)
InputCallback(P) ==
    IF P.elements.fromValue # "" THEN performConversion(P) ELSE clearConversion(P)

\* the listener of the change event of fromUnit and of toUnit
UnitChanged(P) ==
    Call1(LAMBDA updated :
            IF updated.elements.fromValue # "" THEN performConversion(updated) ELSE updated,
          updateFavoriteButton(P))

\* the page after the constructor and init(): the category grid shows, the
\* conversion interface and its result are hidden, nothing is selected
NewPage ==
    [app |-> [currentCategory |-> Null, currentUnits |-> <<>>,
              lastConversion |-> NoConversion, isConverting |-> FALSE],
     elements |-> [categoryGrid |-> "block", conversionInterface |-> "none",
                   conversionTitle |-> "", loadingOverlay |-> "none",
                   options |-> <<>>, fromUnit |-> "", toUnit |-> "",
                   fromValue |-> "", toValue |-> "",
                   convertButton |-> [disabled |-> FALSE],
                   favoriteButton |-> [display |-> "none", active |-> FALSE],
                   conversionResult |-> "none", resultValue |-> "",
                   resultFormula |-> ""],
     requests |-> <<>>,
     notification |-> NoToast]

-----------------------------------------------------------------------------
(* The calls of a client of the engine *)

\* values that are not finite numbers
NonFiniteInputs ==
    {Str("invalid"), Str("5"), UndefinedValue, NaN, PlusInfinity, MinusInfinity}

\* finite values: integers, decimals, values with more than 10 decimal places
FiniteInputs ==
    {Num(0, 0), Num(1, 0), Num(5, 0), Num(100, 0), Num(-40, 0), Num(32, 0),
     Num(212, 0), Num(986, -1), Num(27315, -2), Num(320001, -4), Num(-25, -1),
     Num(1, -3), Num(1, -9), Num(15, -10), Num(1, -11), Num(5, -11),
     Num(-5, -11), Num(12345, -14)}

ValueInputs == NonFiniteInputs \cup FiniteInputs

\* strings that are no unit of the category they are used with
OtherUnitInputs == {"", Undefined, "bogus", "constructor", "meter", "celsius"}

CategoryInputs ==
    {CategoryKeys[i] : i \in DOMAIN CategoryKeys}
        \cup {"", Undefined, "unknown", "constructor", "__proto__"}

UnitInputs(category) ==
    IF IsCategory(category)
    THEN {UnitKeys(category)[i] : i \in DOMAIN UnitKeys(category)} \cup OtherUnitInputs
    ELSE OtherUnitInputs

\* the temperature values whose conversion stays within MaxInt
TemperatureRange(value) == value.e >= -4 /\ Abs(value.n) <= 10000000

\* the calls whose arithmetic stays within MaxInt
InRange(value, fromUnit, toUnit, category) ==
    IF ~IsFinite(value) \/ fromUnit = toUnit \/ ~IsUnit(category, fromUnit) THEN TRUE
    ELSE IF category = "temperature"
         THEN IF ~TemperatureRange(value) THEN FALSE
              ELSE IF ~IsUnit(category, toUnit) THEN TRUE
              ELSE CanRound(FromCelsius(ToCelsius(value, fromUnit).value, toUnit).value)
    ELSE IF Abs(value.n) > MaxInt \div FactorOf(category, fromUnit).n THEN FALSE
    ELSE IF ~IsUnit(category, toUnit) THEN TRUE
    ELSE IF Abs(value.n) > MaxInt \div
                JsDiv(FactorOf(category, fromUnit), FactorOf(category, toUnit)).n
         THEN FALSE
    ELSE /\ CanRound(JsDiv(JsMul(value, FactorOf(category, fromUnit)),
                           FactorOf(category, toUnit)))
         /\ CanRound(JsMul(value, JsDiv(FactorOf(category, fromUnit),
                                        FactorOf(category, toUnit))))

NoCall == [op |-> "none"]

NoResult == [none |-> TRUE]

\* the calls of the clients that make several calls, to the engine and to
\* the category routes
ConvertCalls ==
    {[op |-> "convert", value |-> Num(1, 0), fromUnit |-> "nanometer", toUnit |-> "meter",
      category |-> "length"],
     [op |-> "convert", value |-> Num(320001, -4), fromUnit |-> "fahrenheit",
      toUnit |-> "celsius", category |-> "temperature"],
     [op |-> "convert", value |-> Num(1, 0), fromUnit |-> "bogus", toUnit |-> "bogus",
      category |-> "length"],
     [op |-> "convert", value |-> Num(1, 0), fromUnit |-> "meter", toUnit |-> "foot",
      category |-> "constructor"]}

FormulaCalls ==
    {[op |-> "formula", value |-> Num(1, 0), fromUnit |-> "kilometer", toUnit |-> "meter",
      category |-> "length"],
     [op |-> "formula", value |-> Num(1, 0), fromUnit |-> "celsius", toUnit |-> "kelvin",
      category |-> "temperature"]}

LookupCalls ==
    {[op |-> "getCategories"],
     [op |-> "getCategory", category |-> "length"],
     [op |-> "getCategory", category |-> "unknown"],
     [op |-> "getUnit", category |-> "weight", unit |-> "gram"]}

SearchCalls ==
    {[op |-> "search", category |-> "length", q |-> "METER", limit |-> "3"],
     [op |-> "search", category |-> "area", q |-> "sq", limit |-> Undefined]}

EngineCalls == ConvertCalls \cup FormulaCalls \cup LookupCalls \cup SearchCalls

\* the result of the call c on the engine in its current state
Apply(c) ==
    CASE c.op = "convert" -> convert(c.value, c.fromUnit, c.toUnit, c.category)
      [] c.op = "formula" -> getConversionFormula(c.value, c.fromUnit, c.toUnit, c.category)
      [] c.op = "getCategories" -> getCategories
      [] c.op = "getCategory" -> getCategory(c.category)
      [] c.op = "getUnit" -> getUnit(c.category, c.unit)
      [] c.op = "search" -> searchUnits(c.category, c.q, c.limit)

\* the server after loading the engine
EngineLoaded ==
    /\ call = NoCall
    /\ result = NoResult
    /\ back = NoResult
    /\ registry = UNIT_CATEGORIES
    /\ trace = <<>>
    /\ alone = [c \in EngineCalls |-> Apply(c)]

\* new FavoritesManager() with the list `stored` in local storage:
\* this.favorites = this.loadFavorites()
FavoritesLoaded(stored) ==
    /\ favorites = stored
    /\ localStorage = stored
    /\ outcome = NoCall
    /\ generated = Len(stored)
    /\ clock = 0
    /\ loaded = stored

\* nothing was answered yet
NothingSettled == [request |-> [kind |-> "none"]]

\* the page when the app is constructed and initialised
PageLoaded ==
    /\ app = NewPage.app
    /\ elements = NewPage.elements
    /\ requests = NewPage.requests
    /\ notification = NewPage.notification
    /\ timeout = FALSE
    /\ settled = NothingSettled
    /\ events = 0

Init == EngineLoaded /\ FavoritesLoaded(<<>>) /\ PageLoaded

\* a client calls convert(value, fromUnit, toUnit, category)
Convert ==
    /\ call = NoCall
    /\ \E category \in CategoryInputs :
         \E fromUnit \in UnitInputs(category), toUnit \in UnitInputs(category) :
           \E value \in ValueInputs :
             /\ InRange(value, fromUnit, toUnit, category)
             /\ call' = [op |-> "convert", value |-> value, fromUnit |-> fromUnit,
                         toUnit |-> toUnit, category |-> category]
             /\ result' = convert(value, fromUnit, toUnit, category)
    /\ UNCHANGED <<back, registry, trace, alone, browser>>

\* the client converts the converted value back: convert(r, toUnit, fromUnit, category)
ConvertBack ==
    /\ call.op = "convert"
    /\ result.success
    /\ back = NoResult
    /\ InRange(result.convertedValue, call.toUnit, call.fromUnit, call.category)
    /\ back' = convert(result.convertedValue, call.toUnit, call.fromUnit, call.category)
    /\ UNCHANGED <<call, result, registry, trace, alone, browser>>

\* a client calls getConversionFormula(value, fromUnit, toUnit, category)
Formula ==
    /\ call = NoCall
    /\ \E category \in CategoryInputs :
         \E fromUnit \in UnitInputs(category), toUnit \in UnitInputs(category) :
           \E value \in {Num(1, 0), Num(986, -1), PlusInfinity} :
             /\ InRange(value, fromUnit, toUnit, category)
             /\ call' = [op |-> "formula", value |-> value, fromUnit |-> fromUnit,
                         toUnit |-> toUnit, category |-> category]
             /\ result' = getConversionFormula(value, fromUnit, toUnit, category)
    /\ UNCHANGED <<back, registry, trace, alone, browser>>

\* getConversionFormula's helper is applied to a pair of strings
TemperatureFormula ==
    /\ call = NoCall
    /\ \E fromUnit \in UnitInputs("temperature"), toUnit \in UnitInputs("temperature") :
         /\ call' = [op |-> "temperatureFormula", fromUnit |-> fromUnit, toUnit |-> toUnit]
         /\ result' = Return(getTemperatureFormula(fromUnit, toUnit))
    /\ UNCHANGED <<back, registry, trace, alone, browser>>

\* request items: numbers and numeric strings that convert, strings with a
\* numeric prefix, values that are no number, unknown units, missing fields,
\* and the JSON null
BatchItems ==
    {Item(Num(1, 0), "meter", "centimeter", "length"),
     Item(Str("32"), "fahrenheit", "celsius", "temperature"),
     Item(Str("12.5kg"), "gram", "kilogram", "weight"),
     Item(Str("Infinity"), "meter", "meter", "length"),
     Item(Str("abc"), "meter", "foot", "length"),
     Item(NullValue, "meter", "foot", "length"),
     Item(Num(5, 0), "meter", "bogus", "length"),
     Item(Num(1, 0), Undefined, "foot", "length"),
     NullItem}

\* the longest batch whose items vary freely
MaxBatch == 3

\* the batches of n items that alternate between a and b
Alternating(n, a, b) == Array([i \in 1..n |-> IF i % 2 = 1 THEN a ELSE b])

\* values of req.body.conversions: no array, arrays of 0 .. MaxBatch items,
\* arrays of the greatest accepted length and of one item more
BatchInputs ==
    {NotAnArray}
        \cup {Array(items) : items \in UNION {[1..n -> BatchItems] : n \in 0..MaxBatch}}
        \cup {Alternating(n, Item(Num(1, 0), "meter", "centimeter", "length"), b) :
                n \in {MaxConversions, MaxConversions + 1},
                b \in {Item(Str("abc"), "meter", "foot", "length"),
                       Item(Str("32"), "fahrenheit", "celsius", "temperature")}}

\* a client posts a batch of conversions
Batch ==
    /\ call = NoCall
    /\ \E conversions \in BatchInputs :
         /\ call' = [op |-> "batch", conversions |-> conversions]
         /\ result' = postBatch(conversions)
    /\ UNCHANGED <<back, registry, trace, alone, browser>>

\* bodies of POST /: one field missing, several fields missing or invalid at
\* once, the value 0, an unknown category, a category of Object.prototype
PostInputs ==
    {Item(UndefinedValue, "meter", "foot", "length"),
     Item(Num(1, 0), "meter", "", "length"),
     Item(Num(1, 0), "meter", "foot", Undefined),
     Item(Num(1, 0), "meter", "foot", "constructor"),
     Item(Num(0, 0), "celsius", "kelvin", "temperature"),
     Item(Num(0, 0), "meter", "foot", "length"),
     Item(UndefinedValue, Undefined, Undefined, Undefined),
     Item(NullValue, "", "foot", "length"),
     Item(Str("abc"), Undefined, "foot", "length"),
     Item(Str("abc"), "meter", Undefined, Undefined),
     Item(Str("abc"), "meter", "foot", ""),
     Item(Str("abc"), "meter", "bogus", "unknown"),
     Item(Num(1, 0), Undefined, "", "length"),
     Item(Num(1, 0), "meter", "foot", "unknown"),
     Item(Num(1, 0), "bogus", "bogus", "length"),
     Item(Str(""), "meter", "foot", "length"),
     Item(Str("0"), "meter", "foot", "length")}

\* a client posts one conversion
PostConvert ==
    /\ call = NoCall
    /\ \E body \in BatchItems \cup PostInputs :
         /\ call' = [op |-> "postConvert", body |-> body]
         /\ result' = postConvert(body)
    /\ UNCHANGED <<back, registry, trace, alone, browser>>

\* a client asks whether a conversion is valid
Validate ==
    /\ call = NoCall
    /\ \E body \in BatchItems \cup PostInputs :
         /\ call' = [op |-> "postValidate", body |-> body]
         /\ result' = postValidate(body)
    /\ UNCHANGED <<back, registry, trace, alone, browser>>

\* the values of the route parameter :category
CategoryParameters == CategoryInputs \ {"", Undefined}

\* the values of the route parameter :unit
UnitParameters(category) == UnitInputs(category) \ {"", Undefined}

\* search queries: in lower, upper and mixed case, a symbol, a query that
\* matches nothing, the empty and the absent query
QueryInputs == {"meter", "METER", "Sq", "m", "e", "°", "xyz", "", Undefined}

\* values of the query parameter limit: absent, empty, zero, positive (up to
\* and above 50), negative, with a fraction, hexadecimal, no number
LimitInputs ==
    {Undefined, "", "0", "1", "3", "50", "51", "100", "-1", "-3", "2.9", "0x2", "abc"}

\* a client gets the list of the categories
GetCategories ==
    /\ call = NoCall
    /\ call' = [op |-> "getCategories"]
    /\ result' = getCategories
    /\ UNCHANGED <<back, registry, trace, alone, browser>>

\* a client gets a category with its units
GetCategory ==
    /\ call = NoCall
    /\ \E category \in CategoryParameters :
         /\ call' = [op |-> "getCategory", category |-> category]
         /\ result' = getCategory(category)
    /\ UNCHANGED <<back, registry, trace, alone, browser>>

\* a client gets a unit of a category
GetUnit ==
    /\ call = NoCall
    /\ \E category \in CategoryParameters :
         \E unit \in UnitParameters(category) :
           /\ call' = [op |-> "getUnit", category |-> category, unit |-> unit]
           /\ result' = getUnit(category, unit)
    /\ UNCHANGED <<back, registry, trace, alone, browser>>

\* a client searches the units of a category
Search ==
    /\ call = NoCall
    /\ \E category \in CategoryParameters, q \in QueryInputs, limit \in LimitInputs :
         /\ call' = [op |-> "search", category |-> category, q |-> q, limit |-> limit]
         /\ result' = searchUnits(category, q, limit)
    /\ UNCHANGED <<back, registry, trace, alone, browser>>

Next ==
    \/ Convert
    \/ ConvertBack
    \/ Formula
    \/ TemperatureFormula
    \/ Batch
    \/ PostConvert
    \/ Validate
    \/ GetCategories
    \/ GetCategory
    \/ GetUnit
    \/ Search

Spec == Init /\ [][Next]_vars

\* the greatest number of calls of the clients that make several calls
MaxCalls == 3

\* one more call c is made and answered
MakeCall(c) ==
    /\ Len(trace) < MaxCalls
    /\ call' = c
    /\ result' = Apply(c)
    /\ trace' = Append(trace, [call |-> c, result |-> Apply(c)])
    /\ UNCHANGED <<back, alone, browser>>

\* a call of convert among the calls of the other clients
CallConvert == (\E c \in ConvertCalls : MakeCall(c)) /\ UNCHANGED registry

\* a call of getConversionFormula among the calls of the other clients
CallFormula == (\E c \in FormulaCalls : MakeCall(c)) /\ UNCHANGED registry

\* a lookup that removes the first unit of the first category as it reads
CallLookupInPlace ==
    /\ \E c \in LookupCalls : MakeCall(c)
    /\ registry' = [registry EXCEPT ![1].units = Tail(@)]

\* a lookup of categories or units among the calls of the other clients
CallLookup == (\E c \in LookupCalls : MakeCall(c)) /\ UNCHANGED registry

\* a search that lowers the case of a name in the registry itself
CallSearchInPlace ==
    /\ \E c \in SearchCalls : MakeCall(c)
    /\ registry' = [registry EXCEPT ![1].name = toLowerCase[@]]

\* a search among the calls of the other clients
CallSearch == (\E c \in SearchCalls : MakeCall(c)) /\ UNCHANGED registry

NextCalls == CallConvert \/ CallFormula \/ CallLookup \/ CallSearch

\* any number of calls (up to MaxCalls) in any order
SpecCalls == Init /\ [][NextCalls]_vars

-----------------------------------------------------------------------------
(* The operations of a user on the favorites *)

\* the greatest number of operations on the favorites
MaxOperations == 2

\* a stored list of n favorites with distinct conversions
StoredFavorites(n) ==
    [i \in 1..n |-> Favorite(Id(i), "Favorite " \o ToString(i), "length", "meter",
                             "unit" \o ToString(i), Timestamp(0), Timestamp(0), 0)]

\* the lists found in local storage: none, a short list, a list with room for
\* one favorite, a full list
StoredLists ==
    {StoredFavorites(n) : n \in {0, 2, MAX_FAVORITES - 1, MAX_FAVORITES}}

\* a name of n characters
NameOfLength[n \in Nat] == IF n = 0 THEN "" ELSE NameOfLength[n - 1] \o "x"

\* arguments of addFavorite: new conversions, a padded name, a stored
\* conversion, equal units, a missing field, a name of 101 characters
AddInputs ==
    {<<"Marathon", "length", "kilometer", "mile">>,
     <<"  Body weight ", "weight", "kilogram", "pound">>,
     <<"Again", "length", "meter", "unit1">>,
     <<"Same", "length", "meter", "meter">>,
     <<"", "length", "meter", "foot">>,
     <<"Oven", "temperature", Undefined, "celsius">>,
     <<NameOfLength[101], "area", "acre", "hectare">>}

\* identifiers a caller passes: of the first and of the last favorite, and
\* of no favorite
IdInputs ==
    (IF favorites = <<>> THEN {} ELSE {favorites[1].id, favorites[Len(favorites)].id})
        \cup {"nobody"}

\* arguments `updates` of updateFavorite: a new name, the units of a stored
\* conversion
UpdateInputs ==
    {[name |-> "Renamed"], [fromUnit |-> "meter", toUnit |-> "unit1"]}

\* a well-formed entry of an export file
ValidEntry(name, category, fromUnit, toUnit) ==
    Entry(Str(name), category, fromUnit, toUnit, Timestamp(0), Undefined, Str("3"))

\* export files: the same conversion twice; entries of every kind (null,
\* a missing field, equal units, a stored conversion, a name that is a
\* number, well-formed entries); three well-formed entries; no entry; a file
\* without the array
ImportInputs ==
    {ExportData(<<ValidEntry("Marathon", "length", "kilometer", "mile"),
                  ValidEntry("Marathon 2", "length", "kilometer", "mile")>>),
     ExportData(<<NullEntry,
                  Entry(Str("No units"), "length", Undefined, "", Undefined, Undefined,
                        UndefinedValue),
                  ValidEntry("Same", "length", "meter", "meter"),
                  ValidEntry("Stored", "length", "meter", "unit1"),
                  Entry(Num(7, 0), "speed", "knot", "mach", Undefined, Undefined,
                        Num(2, 0)),
                  ValidEntry(" Oven ", "temperature", "fahrenheit", "celsius"),
                  Entry(UndefinedValue, "time", "hour", "day", Undefined, Undefined,
                        UndefinedValue),
                  ValidEntry("Energy", "energy", "joule", "calorie")>>),
     ExportData(<<ValidEntry("A", "volume", "liter", "cup"),
                  ValidEntry("B", "volume", "liter", "pint"),
                  ValidEntry("C", "volume", "liter", "gallon")>>),
     ExportData(<<>>),
     NoExportData}

\* the end of an operation that did `done`: saveFavorites() if the operation
\* reached it, which writes the list or throws when the write fails
Operate(op, input, done) ==
    /\ clock < MaxOperations
    /\ clock' = clock + 1
    /\ generated' = generated + done.ids
    /\ favorites' = done.favorites
    /\ IF done.save
       THEN \E written \in BOOLEAN :
              /\ localStorage' = IF written THEN done.favorites ELSE localStorage
              /\ outcome' = [op |-> op, input |-> input, before |-> favorites,
                             threw |-> ~written,
                             message |-> IF written THEN ""
                                         ELSE "Failed to save favorites. Storage may be full.",
                             value |-> IF written THEN done.value ELSE Null]
       ELSE /\ localStorage' = localStorage
            /\ outcome' = [op |-> op, input |-> input, before |-> favorites,
                           threw |-> done.threw, message |-> done.message,
                           value |-> done.value]
    /\ UNCHANGED <<loaded, server, page>>

AddFavorite ==
    \E input \in AddInputs :
      \E done \in {addFavorite(favorites, input[1], input[2], input[3], input[4],
                               Id(generated + 1), Timestamp(clock + 1))} :
        Operate("addFavorite", input, done)

RemoveFavorite ==
    \E id \in IdInputs :
      \E done \in {removeFavorite(favorites, id)} : Operate("removeFavorite", id, done)

UpdateFavorite ==
    \E id \in IdInputs, updates \in UpdateInputs :
      \E done \in {updateFavorite(favorites, id, updates)} :
        Operate("updateFavorite", <<id, updates>>, done)

UseFavorite ==
    \E id \in IdInputs :
      \E done \in {useFavorite(favorites, id, Timestamp(clock + 1))} :
        Operate("useFavorite", id, done)

ImportFavorites ==
    \E exportData \in ImportInputs :
      \E done \in {importFavorites(favorites, exportData, generated + 1,
                                   Timestamp(clock + 1))} :
        Operate("importFavorites", exportData, done)

ClearFavorites ==
    \E done \in {clearFavorites} : Operate("clearFavorites", Null, done)

InitFavorites ==
    /\ EngineLoaded
    /\ \E stored \in StoredLists : FavoritesLoaded(stored)
    /\ PageLoaded

NextFavorites ==
    \/ AddFavorite
    \/ RemoveFavorite
    \/ UpdateFavorite
    \/ UseFavorite
    \/ ImportFavorites
    \/ ClearFavorites

\* a user with a stored list who makes up to MaxOperations operations
SpecFavorites == InitFavorites /\ [][NextFavorites]_vars

-----------------------------------------------------------------------------
(* The user of the browser app: the events of the page, the timer of the    *)
(* debounced input, and the answers to the requests, in any order.          *)

\* the most events of the user in one behaviour
MaxEvents == 3

\* the options of a select the user chooses among: the first ones
MaxOptions == 3

\* the categories whose card the user clicks
AppCategories == {"length", "weight"}

\* what the user types into fromValue
TypedTexts == {"1", "2.5", "abc", ""}

\* the page as the variables hold it
Page ==
    [app |-> app, elements |-> elements, requests |-> requests,
     notification |-> notification]

\* the variables take the page P
Becomes(P) ==
    /\ app' = P.app
    /\ elements' = P.elements
    /\ requests' = P.requests
    /\ notification' = P.notification

\* an event of the user: its listener runs to its first await
UserEvent(P) ==
    /\ events < MaxEvents
    /\ events' = events + 1
    /\ Becomes(P)
    /\ UNCHANGED <<timeout, settled, server, manager>>

\* the options the user chooses among
Choices == {elements.options[i] : i \in DOMAIN elements.options \cap 1..MaxOptions}

\* a click on a category card
ClickCategory ==
    /\ elements.categoryGrid = "block"
    /\ \E category \in AppCategories : UserEvent(selectCategory(Page, category))

\* the user changes the text of fromValue: the input event starts the timer
\* of the debounce anew
Input ==
    /\ elements.conversionInterface = "block"
    /\ events < MaxEvents
    /\ \E text \in TypedTexts \ {elements.fromValue} :
         /\ events' = events + 1
         /\ Becomes(SetElement(Page, "fromValue", text))
         /\ timeout' = TRUE
    /\ UNCHANGED <<settled, server, manager>>

\* the timer of the debounce fires
Timeout ==
    /\ timeout
    /\ timeout' = FALSE
    /\ Becomes(InputCallback(Page))
    /\ UNCHANGED <<settled, events, server, manager>>

\* the user chooses another from unit
ChangeFromUnit ==
    /\ elements.conversionInterface = "block"
    /\ \E key \in Choices \ {elements.fromUnit} :
         UserEvent(UnitChanged(Select(Page, "fromUnit", key)))

\* the user chooses another to unit
ChangeToUnit ==
    /\ elements.conversionInterface = "block"
    /\ \E key \in Choices \ {elements.toUnit} :
         UserEvent(UnitChanged(Select(Page, "toUnit", key)))

\* a click on the swap button
ClickSwap ==
    /\ elements.conversionInterface = "block"
    /\ UserEvent(swapUnits(Page))

\* a click on the convert button, which a disabled button does not take
ClickConvert ==
    /\ elements.conversionInterface = "block"
    /\ ~elements.convertButton.disabled
    /\ UserEvent(performConversion(Page))

\* a click on the clear button
ClickClear ==
    /\ elements.conversionInterface = "block"
    /\ UserEvent(clearConversion(Page))

\* a click on the back button
ClickBack ==
    /\ elements.conversionInterface = "block"
    /\ UserEvent(goBackToCategories(Page))

\* Ctrl+Enter or Meta+Enter, anywhere in the document
KeyEnter == UserEvent(performConversion(Page))

\* Ctrl+Backspace or Meta+Backspace, anywhere in the document
KeyBackspace ==
    UserEvent(IF app.currentCategory # Null THEN goBackToCategories(Page) ELSE Page)

\* what the server of this repository answers to a request
Served(req) ==
    Call1(LAMBDA response : JsonResponse(response.status, response.body),
          IF req.kind = "convert" THEN postConvert(req.body)
          ELSE getCategory(req.category))

\* what fetch may give for a request: the answer of the server, no response
\* at all, the response of something between the browser and the server,
\* and for a conversion a response that reports a failure in its body
Fetched(req) ==
    {Served(req),
     NoResponse,
     TextResponse(502),
     NullResponse(503),
     JsonResponse(429, [error |-> "Too many requests, please try again later."])}
    \cup (IF req.kind = "convert"
          THEN {JsonResponse(200, [success |-> FALSE,
                                   error |-> "Conversion failed on the server"])}
          ELSE {})

\* the sequence without its i-th element
Without(seq, i) == SubSeq(seq, 1, i - 1) \o SubSeq(seq, i + 1, Len(seq))

\* the continuation of the method that awaits the request
Continue(P, req, answer) ==
    IF req.kind = "convert" THEN Converted(P, answer)
    ELSE Selected(P, req.category, answer)

\* a request is answered and the method awaiting it runs to its end
Respond ==
    /\ \E i \in DOMAIN requests :
         \E response \in Fetched(requests[i]) :
           /\ settled' = [request |-> requests[i], response |-> response,
                          answer |-> request(response)]
           /\ Becomes(Continue([Page EXCEPT !.requests = Without(requests, i)],
                               requests[i], request(response)))
    /\ UNCHANGED <<timeout, events, server, manager>>

NextApp ==
    \/ ClickCategory
    \/ Input
    \/ Timeout
    \/ ChangeFromUnit
    \/ ChangeToUnit
    \/ ClickSwap
    \/ ClickConvert
    \/ ClickClear
    \/ ClickBack
    \/ KeyEnter
    \/ KeyBackspace
    \/ Respond

SpecApp == Init /\ [][NextApp]_vars


-----------------------------------------------------------------------------
(* Vocabulary of the properties *)

\* sub occurs in the string str
Contains(str, sub) ==
    \E i \in 1..(Len(str) - Len(sub) + 1) : SubSeq(str, i, i + Len(sub) - 1) = sub

ConvertCalled == call.op = "convert"

FormulaCalled == call.op = "formula"

\* the units of the call are distinct units of its category
DistinctUnitsOfCategory ==
    /\ IsUnit(call.category, call.fromUnit)
    /\ IsUnit(call.category, call.toUnit)
    /\ call.fromUnit # call.toUnit

LinearCategory(category) == IsCategory(category) /\ category # "temperature"

SuccessFields ==
    {"success", "originalValue", "convertedValue", "fromUnit", "toUnit", "category", "formula"}

FailureFields ==
    {"success", "error", "originalValue", "fromUnit", "toUnit", "category"}

\* |x| <= 10^-10 for a finite number x = (n / d) * 10^e
AtMostTolerance(x) ==
    IF x.n = 0 THEN TRUE
    ELSE IF x.e + Decimals >= 10 THEN FALSE
    ELSE IF x.e + Decimals >= 0 THEN Abs(x.n) <= x.d \div Pow10[x.e + Decimals]
    ELSE IF x.e + Decimals <= -10 THEN TRUE
    ELSE (Abs(x.n) \div Pow10[-(x.e + Decimals)])
           + (IF Abs(x.n) % Pow10[-(x.e + Decimals)] = 0 THEN 0 ELSE 1) <= x.d

\* a and b differ by no more than the 10-decimal rounding tolerance
WithinTolerance(a, b) == Call1(AtMostTolerance, JsSub(a, b))

\* x * 10^10 as a quotient of integers, for x with more than 10 decimals
ScaledNumerator(x) ==
    IF x.e + Decimals >= 0 THEN x.n * Pow10[x.e + Decimals] ELSE x.n

ScaledDenominator(x) ==
    IF x.e + Decimals >= 0 THEN x.d ELSE x.d * Pow10[-(x.e + Decimals)]

\* the integer k is one of the integers nearest to N / D, up to the
\* 1 / EpsilonInverse that Number.EPSILON adds
IsNearest(k, N, D) ==
    \/ k = N \div D /\ 2 * (N % D) <= D + (2 * D) \div EpsilonInverse
    \/ k = (N \div D) + 1 /\ 2 * (D - (N % D)) <= D + (2 * D) \div EpsilonInverse

\* y is x rounded to 10 decimal places: x itself if it has no more than 10
\* decimals, else a multiple of 10^-10 nearest to x
IsRounded(y, x) ==
    IF ~IsFinite(x) \/ (x.d = 1 /\ x.e + Decimals >= 0) THEN y = x
    ELSE IF x.e + Decimals <= -10 THEN y = Num(0, 0)
    ELSE IF y = Num(0, 0) THEN IsNearest(0, ScaledNumerator(x), ScaledDenominator(x))
    ELSE /\ IsFinite(y) /\ y.d = 1 /\ y.e + Decimals >= 0 /\ y.e + Decimals < 10
         /\ Abs(y.n) <= MaxInt \div Pow10[y.e + Decimals]
         /\ IsNearest(y.n * Pow10[y.e + Decimals], ScaledNumerator(x), ScaledDenominator(x))

-----------------------------------------------------------------------------
(* Properties of convert *)

\* C1: every call of convert returns a result object: with success = TRUE it
\* carries convertedValue and a string formula and no error, with
\* success = FALSE a non-empty error message and no convertedValue; in both
\* cases originalValue, fromUnit, toUnit and category are the arguments.
C1_ConvertReturnsResult ==
    ConvertCalled =>
        /\ result.originalValue = call.value
        /\ result.fromUnit = call.fromUnit
        /\ result.toUnit = call.toUnit
        /\ result.category = call.category
        /\ IF result.success
           THEN /\ DOMAIN result = SuccessFields
                /\ result.convertedValue.type = "number"
                /\ result.formula \in STRING
           ELSE /\ DOMAIN result = FailureFields
                /\ result.error \in STRING
                /\ result.error # ""

\* a TypeError raised inside the engine came back as a failure result
C1_Witness ==
    /\ ConvertCalled
    /\ call.category = "constructor"
    /\ call.fromUnit = "meter"
    /\ ~result.success
    /\ result.error = CannotRead("meter")

\* the call passed the checks of the value and of the required fields
ValidArguments ==
    /\ IsFinite(call.value)
    /\ ~Falsy(call.fromUnit)
    /\ ~Falsy(call.toUnit)
    /\ ~Falsy(call.category)

\* C2: a successful convert has both units in its category; with a valid
\* value and a category of the registry, a unit that is absent from the
\* category (also when fromUnit and toUnit are the same string) gives a
\* failure whose error names the absent unit.
C2_UnitsResolvedOrFailure ==
    ConvertCalled =>
        /\ result.success =>
             IsUnit(call.category, call.fromUnit) /\ IsUnit(call.category, call.toUnit)
        /\ (ValidArguments /\ IsCategory(call.category)) =>
             /\ ~IsUnit(call.category, call.fromUnit) =>
                  ~result.success /\ Contains(result.error, call.fromUnit)
             /\ (IsUnit(call.category, call.fromUnit)
                   /\ ~IsUnit(call.category, call.toUnit)) =>
                  ~result.success /\ Contains(result.error, call.toUnit)

\* C3: convert fails with a message containing "valid number" for every
\* value that is not a finite number (a string, undefined, NaN, +Infinity,
\* -Infinity) and never succeeds for such a value; stated for the calls
\* that give all three of fromUnit, toUnit and category.
C3_NonFiniteValueRejected ==
    (ConvertCalled /\ ~IsFinite(call.value)
       /\ ~Falsy(call.fromUnit) /\ ~Falsy(call.toUnit) /\ ~Falsy(call.category)) =>
        ~result.success /\ Contains(result.error, "valid number")

\* the required fields of the call that are empty or absent
MissingFields ==
    {f \in {"fromUnit", "toUnit", "category"} : Falsy(call[f])}

\* the words by which a message names a required field
FieldWords(f) ==
    CASE f = "fromUnit" -> {"fromUnit", "From unit", "from unit"}
      [] f = "toUnit" -> {"toUnit", "To unit", "to unit"}
      [] f = "category" -> {"category", "Category"}

\* the required fields a message names
FieldsNamed(message) ==
    {f \in {"fromUnit", "toUnit", "category"} :
        \E w \in FieldWords(f) : Contains(message, w)}

\* C6: when fromUnit, toUnit or category is empty or absent (the value being
\* a valid number), convert fails and the fields its error message names are
\* the missing ones.
C6_MissingFieldNamed ==
    (ConvertCalled /\ IsFinite(call.value) /\ MissingFields # {}) =>
        ~result.success /\ FieldsNamed(result.error) = MissingFields

\* C7: for a category key that is not in the registry, convert with a valid
\* value and non-empty units fails with a message containing
\* "Unknown category", whatever the units, also when fromUnit = toUnit.
C7_UnknownCategoryRejected ==
    (ConvertCalled /\ ValidArguments /\ ~IsCategory(call.category)) =>
        ~result.success /\ Contains(result.error, "Unknown category")

\* C5: in a linear-factor category, converting a finite value from a to b and
\* the result back from b to a gives a value within the rounding tolerance
\* of the value, for every pair of units of the category.
C5_RoundTripWithinTolerance ==
    (ConvertCalled /\ back # NoResult /\ IsFinite(call.value)
       /\ LinearCategory(call.category)
       /\ IsUnit(call.category, call.fromUnit) /\ IsUnit(call.category, call.toUnit)) =>
        /\ back.success
        /\ WithinTolerance(back.convertedValue, call.value)

\* C10: getConversionFormula never throws; it returns the empty string when
\* the category is unknown or a unit is no unit of the category, and a
\* string otherwise.
C10_FormulaNeverThrows ==
    FormulaCalled =>
        /\ ~result.threw
        /\ result.value \in STRING
        /\ (~IsUnit(call.category, call.fromUnit) \/ ~IsUnit(call.category, call.toUnit)) =>
             result.value = ""

\* C4: for every unit u of a category of the registry and every finite
\* value v, convert(v, u, u, category) succeeds with convertedValue = v,
\* unrounded.
C4_SameUnitIsIdentity ==
    (ConvertCalled /\ IsFinite(call.value) /\ call.fromUnit = call.toUnit
       /\ IsUnit(call.category, call.fromUnit)) =>
        result.success /\ result.convertedValue = call.value

\* a value with 14 decimal places came back unchanged from a same-unit call
C4_Witness ==
    /\ ConvertCalled
    /\ call.value = Num(12345, -14)
    /\ call.fromUnit = "meter" /\ call.toUnit = "meter" /\ call.category = "length"
    /\ result.success
    /\ result.convertedValue = Num(12345, -14)

\* the Celsius value of v in a temperature unit
Pivot(v, unit) ==
    CASE unit = "celsius" -> v
      [] unit = "fahrenheit" -> JsDiv(JsMul(JsSub(v, Num(32, 0)), Num(5, 0)), Num(9, 0))
      [] unit = "kelvin" -> JsSub(v, Num(27315, -2))
      [] unit = "rankine" -> JsDiv(JsMul(JsSub(v, Num(49167, -2)), Num(5, 0)), Num(9, 0))

\* the value in a temperature unit of the Celsius value c
Target(c, unit) ==
    CASE unit = "celsius" -> c
      [] unit = "fahrenheit" -> JsAdd(JsDiv(JsMul(c, Num(9, 0)), Num(5, 0)), Num(32, 0))
      [] unit = "kelvin" -> JsAdd(c, Num(27315, -2))
      [] unit = "rankine" -> JsAdd(JsDiv(JsMul(c, Num(9, 0)), Num(5, 0)), Num(49167, -2))

\* the call convert(value, fromUnit, toUnit, "temperature")
TemperatureCall(value, fromUnit, toUnit) ==
    /\ ConvertCalled
    /\ call.category = "temperature"
    /\ call.value = value /\ call.fromUnit = fromUnit /\ call.toUnit = toUnit

\* C8: for distinct temperature units and a finite value, convert succeeds
\* and its convertedValue is the target formula applied to the Celsius
\* pivot of the value, rounded to 10 decimals; 0 celsius is 32 fahrenheit,
\* 100 celsius 212 fahrenheit, -40 celsius -40 fahrenheit and 0 celsius
\* 273.15 kelvin.
C8_TemperatureThroughCelsius ==
    /\ (ConvertCalled /\ call.category = "temperature" /\ IsFinite(call.value)
          /\ DistinctUnitsOfCategory) =>
         /\ result.success
         /\ IsRounded(result.convertedValue,
                      Target(Pivot(call.value, call.fromUnit), call.toUnit))
    /\ TemperatureCall(Num(0, 0), "celsius", "fahrenheit") =>
         result.convertedValue = Num(32, 0)
    /\ TemperatureCall(Num(100, 0), "celsius", "fahrenheit") =>
         result.convertedValue = Num(212, 0)
    /\ TemperatureCall(Num(-40, 0), "celsius", "fahrenheit") =>
         result.convertedValue = Num(-40, 0)
    /\ TemperatureCall(Num(0, 0), "celsius", "kelvin") =>
         result.convertedValue = Num(27315, -2)

\* 32.0001 fahrenheit is 0.0000555556 celsius
C8_Witness ==
    /\ TemperatureCall(Num(320001, -4), "fahrenheit", "celsius")
    /\ result.success
    /\ result.convertedValue = Num(555556, -10)

\* the call convert(value, fromUnit, toUnit, "length")
LengthCall(value, fromUnit, toUnit) ==
    /\ ConvertCalled
    /\ call.category = "length"
    /\ call.value = value /\ call.fromUnit = fromUnit /\ call.toUnit = toUnit

\* C9: for distinct units a, b of a linear-factor category and a finite
\* value, convert succeeds and its convertedValue is
\* value * factor(a) / factor(b) rounded to 10 decimals; 1 of a unit is its
\* factor in the base unit, 1 meter is 100 centimeter, 1 kilometer is
\* 1000 meter.
C9_LinearFactorConversion ==
    /\ (ConvertCalled /\ LinearCategory(call.category) /\ IsFinite(call.value)
          /\ DistinctUnitsOfCategory) =>
         /\ result.success
         /\ IsRounded(result.convertedValue,
                      JsDiv(JsMul(call.value, Unit(call.category, call.fromUnit).factor),
                            Unit(call.category, call.toUnit).factor))
         /\ (call.value = Num(1, 0) /\ call.toUnit = Category(call.category).baseUnit) =>
              result.convertedValue = Unit(call.category, call.fromUnit).factor
    /\ LengthCall(Num(1, 0), "meter", "centimeter") => result.convertedValue = Num(100, 0)
    /\ LengthCall(Num(1, 0), "kilometer", "meter") => result.convertedValue = Num(1000, 0)

\* 0.000000001 meter is 0.0000000033 foot, rounded up from 0.00000000328...
C9_Witness ==
    /\ LengthCall(Num(1, -9), "meter", "foot")
    /\ result.success
    /\ result.convertedValue = Num(33, -10)

-----------------------------------------------------------------------------
(* Properties of the formula table *)

TemperatureUnits == {"celsius", "fahrenheit", "kelvin", "rankine"}

\* str ends with sub
EndsWith(str, sub) ==
    Len(sub) <= Len(str) /\ SubSeq(str, Len(str) - Len(sub) + 1, Len(str)) = sub

\* C11: the temperature formula table has a non-empty formula for each of
\* the 12 ordered pairs of distinct temperature units, written from the
\* symbol of the source unit to "= " and the symbol of the target unit, and
\* gives the empty string for every other pair, the same-unit pairs included.
C11_TemperatureFormulaTable ==
    call.op = "temperatureFormula" =>
        IF call.fromUnit \in TemperatureUnits /\ call.toUnit \in TemperatureUnits
           /\ call.fromUnit # call.toUnit
        THEN /\ result.value # ""
             /\ Contains(result.value, SymbolOf("temperature", call.fromUnit))
             /\ EndsWith(result.value, "= " \o SymbolOf("temperature", call.toUnit))
        ELSE result.value = ""

\* the table gave the formula from rankine to kelvin
C11_Witness ==
    /\ call.op = "temperatureFormula"
    /\ call.fromUnit = "rankine" /\ call.toUnit = "kelvin"
    /\ result.value = "°R × 5/9 = K"

-----------------------------------------------------------------------------
(* Properties of the batch route *)

\* the batch was accepted: an array of 1 .. 100 requests
BatchAccepted ==
    /\ call.op = "batch"
    /\ call.conversions.json = "array"
    /\ Len(call.conversions.items) \in 1..MaxConversions

\* the result r answers the request item: it carries the item itself, or
\* the units and the category of the item
Answers(r, item) ==
    IF "conversion" \in DOMAIN r THEN r.conversion = item
    ELSE /\ r.fromUnit = item.fromUnit
         /\ r.toUnit = item.toUnit
         /\ r.category = item.category

\* C12: for an accepted batch of N requests the results have N entries and
\* the i-th result (counting from 0) has index i and answers the i-th
\* request, valid or not.
C12_BatchOrderPreserved ==
    BatchAccepted =>
        /\ Len(result.body.results) = Len(call.conversions.items)
        /\ \A i \in 1..Len(call.conversions.items) :
             /\ result.body.results[i].index = i - 1
             /\ Answers(result.body.results[i], call.conversions.items[i])

\* a failing item between two converted ones kept its place
C12_Witness ==
    /\ BatchAccepted
    /\ call.conversions.items = <<Item(Num(1, 0), "meter", "centimeter", "length"),
                                  Item(Str("abc"), "meter", "foot", "length"),
                                  Item(Str("32"), "fahrenheit", "celsius", "temperature")>>
    /\ result.body.results[2].index = 1
    /\ ~result.body.results[2].success
    /\ result.body.results[3].index = 2
    /\ result.body.results[3].success

\* C13: in the response of an accepted batch totalConversions is the number
\* of requests, successfulConversions the number of results with success,
\* successful + failed = total, and the response is 200 with success = TRUE
\* even when every item fails.
C13_BatchCounts ==
    BatchAccepted =>
        /\ result.status = 200
        /\ result.body.success
        /\ result.body.totalConversions = Len(call.conversions.items)
        /\ result.body.successfulConversions =
             Cardinality({i \in 1..Len(result.body.results) : result.body.results[i].success})
        /\ result.body.successfulConversions + result.body.failedConversions =
             result.body.totalConversions

\* a batch whose three items all fail is answered 200 with 0 successes
C13_Witness ==
    /\ BatchAccepted
    /\ Len(call.conversions.items) = 3
    /\ \A i \in 1..3 : ~result.body.results[i].success
    /\ result.status = 200 /\ result.body.success
    /\ result.body.successfulConversions = 0
    /\ result.body.failedConversions = 3

\* the response of POST / carries a successful conversion
PostSucceeded(response) == response.status = 200 /\ response.body.success

\* the result r of a batch agrees with the response of POST / for its item
AgreesWithPost(r, response) ==
    /\ r.success = PostSucceeded(response)
    /\ r.success => /\ r.convertedValue = response.body.convertedValue
                    /\ r.formula = response.body.formula

\* C14: in an accepted batch every result has the success flag that POST /
\* gives for its item alone and, on success, the same convertedValue and
\* formula, whatever the other items are.
C14_BatchIsRepeatedConvert ==
    BatchAccepted =>
        \A i \in 1..Len(call.conversions.items) :
            AgreesWithPost(result.body.results[i], postConvert(call.conversions.items[i]))

\* a string with a numeric prefix converts in a batch as it does alone
C14_Witness ==
    /\ BatchAccepted
    /\ Len(call.conversions.items) = 2
    /\ call.conversions.items[2] = Item(Str("12.5kg"), "gram", "kilogram", "weight")
    /\ result.body.results[2].success
    /\ result.body.results[2].convertedValue = Num(125, -4)
    /\ ~result.body.results[1].success

-----------------------------------------------------------------------------
(* Properties of the engine under several calls *)

C16_RegistryNeverMutated == registry = UNIT_CATEGORIES

\* a search, a unit lookup and a conversion were made and the meter is still
\* the base unit of length, with factor 1
C16_Witness ==
    /\ Len(trace) = 3
    /\ {trace[i].call.op : i \in 1..3} = {"search", "getUnit", "convert"}
    /\ registry[1].key = "length" /\ registry[1].baseUnit = "meter"
    /\ \E i \in DOMAIN registry[1].units :
         registry[1].units[i] = U("meter", "Meter", "m", Dec(1, 1, 0), "metric")

\* the keys of the categories in the order of their declaration
DeclarationOrder ==
    <<"length", "weight", "volume", "temperature", "area", "time", "speed", "energy">>

\* the sequence of summaries is the one getAllCategories is to return
IsCategoryList(categories) ==
    /\ Len(categories) = Len(DeclarationOrder)
    /\ \A i \in DOMAIN DeclarationOrder :
         /\ categories[i].key = DeclarationOrder[i]
         /\ categories[i].unitCount = Cardinality({u.key : u \in Units(DeclarationOrder[i])})
         /\ categories[i].baseUnit = Category(DeclarationOrder[i]).baseUnit

\* C17: getAllCategories returns one summary per category in declaration
\* order, each with the number of units and the base unit of its category,
\* and the same sequence on every call.
C17_CategoriesInDeclarationOrder ==
    \A i \in DOMAIN trace :
        trace[i].call.op = "getCategories" =>
            /\ trace[i].result.status = 200
            /\ trace[i].result.body.count = 8
            /\ IsCategoryList(trace[i].result.body.categories)
            /\ \A j \in DOMAIN trace :
                 trace[j].call.op = "getCategories" => trace[j].result = trace[i].result

\* the list was asked for twice, with a conversion in between
C17_Witness ==
    /\ Len(trace) = 3
    /\ trace[1].call.op = "getCategories"
    /\ trace[2].call.op = "convert"
    /\ trace[3].call.op = "getCategories"
    /\ trace[3].result.body.categories[4].key = "temperature"
    /\ trace[3].result.body.categories[4].unitCount = 4
    /\ trace[3].result.body.categories[1].unitCount = 12

-----------------------------------------------------------------------------
(* Properties of the category routes *)

\* the response is the typed error `code` with status 404
NotFound(response, code) ==
    /\ response.status = 404
    /\ response.body.code = code

\* the response is the record of the unit `unit` of `category`, with its key
IsUnitRecord(response, category, unit) ==
    /\ response.status = 200
    /\ response.body.success
    /\ response.body.category = category
    /\ response.body.unit.key = unit
    /\ response.body.unit = UnitRecord(Unit(category, unit))

\* C18: the lookup of a unit checks the category first: an unknown category
\* gives 404 CATEGORY_NOT_FOUND whatever the unit key is, a known category
\* with a unit key not in it gives 404 UNIT_NOT_FOUND, and a known category
\* with a known unit returns the record of that unit with its key.
C18_UnitLookupTypedErrors ==
    call.op = "getUnit" =>
        IF ~IsCategory(call.category)
        THEN NotFound(result, "CATEGORY_NOT_FOUND")
        ELSE IF ~IsUnit(call.category, call.unit)
        THEN NotFound(result, "UNIT_NOT_FOUND")
        ELSE IsUnitRecord(result, call.category, call.unit)

\* the units of `category`, in declaration order, whose key, name or symbol
\* contains `query` whatever the case of the letters
MatchingUnits(category, query) ==
    Filter(UnitRecords(Category(category).units),
           LAMBDA unit : Matches(unit, toLowerCase[query]))

\* the number of results a search may return at most: min(limit, 50) for a
\* limit that parses to a positive integer, else 10
ResultLimit(limit) ==
    IF limit = Undefined THEN 10
    ELSE Call1(LAMBDA parsed :
                 IF parsed.kind = "NaN" THEN 10
                 ELSE IF Sign(parsed) <= 0 THEN 10
                 ELSE IF parsed.e > 1 THEN 50
                 ELSE Min(IntegerOf(parsed), 50),
               parseInt(Str(limit)))

\* the first `length` elements of `array`, or all of them if it has fewer
Prefix(array, length) == SubSeq(array, 1, Min(Len(array), length))

\* C19: for every category of the registry and every non-empty query the
\* search returns the first min(number of matches, L) of the units whose
\* key, name or symbol contains the query case-insensitively, in declaration
\* order, where L = min(limit, 50) if limit parses to a positive integer and
\* L = 10 for an absent, zero, negative or unparsable limit.
C19_SearchReturnsLimitedPrefix ==
    (call.op = "search" /\ IsCategory(call.category) /\ ~Falsy(call.q)) =>
        /\ result.status = 200
        /\ result.body.units =
               Prefix(MatchingUnits(call.category, call.q), ResultLimit(call.limit))
        /\ result.body.resultCount = Len(result.body.units)

-----------------------------------------------------------------------------
(* Properties of the registry *)

\* the units of the category record c
UnitsOf(c) == Elements(c.units)

\* the base unit key of c is the key of one of its own units
BaseUnitIsOwnUnit(c) == \E u \in UnitsOf(c) : u.key = c.baseUnit

\* the base unit of c has factor 1 and every unit of c a factor above zero
FactorsWellFormed(c) ==
    /\ \A u \in UnitsOf(c) : u.key = c.baseUnit => u.factor = Num(1, 0)
    /\ \A u \in UnitsOf(c) : IsFinite(u.factor) /\ Sign(u.factor) > 0

\* C20: in every category of the registry the base unit key is one of the
\* category's own unit keys, and in every category but temperature the base
\* unit has factor 1 and every unit a factor greater than zero.
C20_RegistryWellFormed ==
    \A c \in Categories :
        /\ BaseUnitIsOwnUnit(c)
        /\ c.key # "temperature" => FactorsWellFormed(c)

\* a length was converted into light years, a division by the largest factor
\* of the registry, with the meter the base unit of length
C20_Witness ==
    /\ ConvertCalled
    /\ call.category = "length" /\ call.fromUnit = "kilometer" /\ call.toUnit = "lightYear"
    /\ result.success
    /\ Category("length").baseUnit = "meter"
    /\ Unit("length", "meter").factor = Num(1, 0)
    /\ Unit("length", "lightYear").factor = Num(9461, 12)
    /\ Unit("length", "nanometer").factor = Num(1, -9)

-----------------------------------------------------------------------------
(* Properties of the conversion route *)

\* POST / was called with a JSON object as its body
PostCalled == call.op = "postConvert" /\ call.body.json = "object"

\* the result of the engine for the body, with the value parsed
EngineResult(body) ==
    convert(parseFloat(body.value), body.fromUnit, body.toUnit, body.category)

\* the code of the first check of POST / that fails for the body, "OK" if
\* none does
FirstFailure(body) ==
    IF body.value.type \in {"undefined", "null"} THEN "MISSING_VALUE"
    ELSE IF body.fromUnit \in {"", Undefined} THEN "MISSING_FROM_UNIT"
    ELSE IF body.toUnit \in {"", Undefined} THEN "MISSING_TO_UNIT"
    ELSE IF body.category \in {"", Undefined} THEN "MISSING_CATEGORY"
    ELSE IF parseFloat(body.value).kind = "NaN" THEN "INVALID_VALUE"
    ELSE IF ~EngineResult(body).success THEN "CONVERSION_ERROR"
    ELSE "OK"

\* C22: POST / answers with the outcome of the first check that fails, in
\* the order MISSING_VALUE, MISSING_FROM_UNIT, MISSING_TO_UNIT,
\* MISSING_CATEGORY, INVALID_VALUE, CONVERSION_ERROR, each with status 400;
\* it answers 200 with the result of the engine exactly when no check fails
\* and the engine succeeds, and a value of 0 is not absent.
C22_FirstFailingCheckDecides ==
    PostCalled =>
        IF FirstFailure(call.body) = "OK"
        THEN /\ result.status = 200
             /\ result.body = EngineResult(call.body)
             /\ result.body.success
        ELSE /\ result.status = 400
             /\ result.body.code = FirstFailure(call.body)
             /\ FirstFailure(call.body) = "CONVERSION_ERROR" =>
                  /\ result.body.details = EngineResult(call.body)
                  /\ result.body.error = EngineResult(call.body).error

\* a body whose value is no number and whose fromUnit is absent was answered
\* with MISSING_FROM_UNIT, the first of the two checks
C22_Witness ==
    /\ PostCalled
    /\ call.body = Item(Str("abc"), Undefined, "foot", "length")
    /\ result.status = 400
    /\ result.body.code = "MISSING_FROM_UNIT"

-----------------------------------------------------------------------------
(* Properties of the precedence of the errors of convert *)

\* the kinds of error of the call of convert: an invalid value (not of type
\* number, or NaN), a missing field, a category that is not in the registry,
\* a fromUnit and a toUnit that are no unit of the category of the call
ErrorsOfCall ==
    (IF call.value.type # "number" THEN {"value"}
     ELSE IF call.value.kind = "NaN" THEN {"value"} ELSE {})
    \cup (IF MissingFields # {} THEN {"missing"} ELSE {})
    \cup (IF ~Falsy(call.category) /\ ~IsCategory(call.category) THEN {"category"} ELSE {})
    \cup (IF IsCategory(call.category) /\ ~Falsy(call.fromUnit)
             /\ ~IsUnit(call.category, call.fromUnit) THEN {"fromUnit"} ELSE {})
    \cup (IF IsCategory(call.category) /\ ~Falsy(call.toUnit)
             /\ ~IsUnit(call.category, call.toUnit) THEN {"toUnit"} ELSE {})

\* the kinds of error in the order of their precedence
Precedence == <<"value", "missing", "category", "fromUnit", "toUnit">>

\* the first kind of error of the call in the order of precedence
FirstError ==
    Precedence[CHOOSE i \in DOMAIN Precedence :
                  /\ Precedence[i] \in ErrorsOfCall
                  /\ \A j \in 1..(i - 1) : Precedence[j] \notin ErrorsOfCall]

\* the message reports an error of the kind
Reports(message, kind) ==
    CASE kind = "value" -> message = "Value must be a valid number"
      [] kind = "missing" -> message = "From unit, to unit, and category are required"
      [] kind = "category" -> Contains(message, "Unknown category")
      [] kind = "fromUnit" ->
            /\ Contains(message, "Unknown") /\ Contains(message, "unit")
            /\ Contains(message, call.fromUnit)
      [] kind = "toUnit" ->
            /\ Contains(message, "Unknown") /\ Contains(message, "unit")
            /\ Contains(message, call.toUnit)

\* C23: when several arguments of convert are invalid at once the result is a
\* failure that reports the one error that comes first in the order invalid
\* value, missing field, unknown category, unknown fromUnit, unknown toUnit,
\* in the temperature category as in the linear-factor categories.
C23_ErrorPrecedence ==
    (ConvertCalled /\ ~IsInfinite(call.value) /\ Cardinality(ErrorsOfCall) >= 2) =>
        /\ ~result.success
        /\ Reports(result.error, FirstError)

-----------------------------------------------------------------------------
(* Properties of the validation route *)

\* POST /validate was called with a JSON object as its body
ValidateCalled == call.op = "postValidate" /\ call.body.json = "object"

\* C29: for every body, POST /validate answers valid = true exactly when
\* POST / answers the same body with 200 and success = true; valid = true
\* implies that errors is empty and conversionError is null, and the
\* conversion is attempted only when errors is empty.
C29_ValidateAgreesWithConvert ==
    ValidateCalled =>
        /\ result.status = 200
        /\ result.body.valid = PostSucceeded(postConvert(call.body))
        /\ result.body.valid =>
             result.body.errors = <<>> /\ result.body.conversionError = Null
        /\ result.body.errors # <<>> =>
             ~result.body.conversionValid /\ result.body.conversionError = Null

\* a numeric string was found valid, as POST / converts it
C29_Witness ==
    /\ ValidateCalled
    /\ call.body = Item(Str("32"), "fahrenheit", "celsius", "temperature")
    /\ result.body.valid
    /\ result.body.errors = <<>>
    /\ postConvert(call.body).status = 200

-----------------------------------------------------------------------------
(* Properties of the favorites *)

\* the number of positions of the sequence that satisfy Test
CountOf(seq, Test(_)) == Cardinality({i \in DOMAIN seq : Test(seq[i])})

\* the operation `op` was the last one and it returned
Returned(op) == outcome.op = op /\ ~outcome.threw

\* the entry of a file is well formed, has a name that is a string and is no
\* conversion of the list
IsNewEntry(fav, list) ==
    /\ fav.json = "object"
    /\ fav.name.type = "string" /\ fav.name.s # ""
    /\ ~Falsy(fav.category) /\ ~Falsy(fav.fromUnit) /\ ~Falsy(fav.toUnit)
    /\ fav.fromUnit # fav.toUnit
    /\ ~isFavorited(list, fav.category, fav.fromUnit, fav.toUnit)

\* the message of the limit
LimitMessage == "Maximum 50 favorites allowed"

\* C21: the list never holds more than 50 favorites, in memory and in local
\* storage, after any operations on a stored list of at most 50; addFavorite
\* on a full list throws and adds nothing; importFavorites imports new
\* entries only as far as there is room and counts each new entry over the
\* limit as an error.
C21_AtMostFiftyFavorites ==
    /\ Len(favorites) <= 50
    /\ Len(localStorage) <= 50
    /\ (outcome.op = "addFavorite" /\ Len(outcome.before) = 50) =>
         outcome.threw /\ favorites = outcome.before
    /\ Returned("importFavorites") =>
         /\ outcome.value.imported =
               Min(50 - Len(outcome.before),
                   CountOf(outcome.input.favorites.items,
                           LAMBDA fav : IsNewEntry(fav, outcome.before)))
         /\ CountOf(outcome.value.errorDetails, LAMBDA e : e = LimitMessage)
               >= CountOf(outcome.input.favorites.items,
                          LAMBDA fav : IsNewEntry(fav, outcome.before))
                    - outcome.value.imported
         /\ outcome.value.errors = Len(outcome.value.errorDetails)

\* three new entries were imported into a list of 49: one was taken and two
\* were counted as errors
C21_Witness ==
    /\ Returned("importFavorites")
    /\ Len(outcome.before) = 49
    /\ Len(outcome.input.favorites.items) = 3
    /\ outcome.value.imported = 1
    /\ outcome.value.errors = 2
    /\ Len(favorites) = 50
    /\ favorites[1].name = "A"

\* no two favorites of the list are the same conversion
DistinctConversions(list) ==
    \A i, j \in DOMAIN list :
        i # j => ~SameConversion(list[i], list[j].category, list[j].fromUnit,
                                 list[j].toUnit)

\* C24: after any sequence of operations of the manager from an empty list,
\* no two stored favorites have the same category, fromUnit and toUnit.
C24_NoDuplicateConversions ==
    loaded = <<>> => DistinctConversions(favorites) /\ DistinctConversions(localStorage)

\* C25: after every operation of the manager, whether it returned or threw,
\* the list in memory is the list last written to local storage, and an
\* operation that threw left the list in memory as it was before the call.
C25_MemoryAgreesWithStorage ==
    /\ favorites = localStorage
    /\ outcome.op # "none" /\ outcome.threw => favorites = outcome.before

\* the entries of the file that importFavorites is to import into the list
NewEntries(entries, list) == Filter(entries, LAMBDA fav : IsNewEntry(fav, list))

\* the favorite was made of the entry of a file
ImportedFrom(favorite, fav) ==
    /\ favorite.name = Trim(fav.name.s)
    /\ favorite.category = fav.category
    /\ favorite.fromUnit = fav.fromUnit
    /\ favorite.toUnit = fav.toUnit

\* C26: importFavorites accounts for every entry of the file once: imported +
\* existing + errors is the number of entries, the list grows by `imported`
\* favorites, and these stand in front of the previous ones in the order of
\* the file.
C26_ImportAccountsForEveryEntry ==
    Returned("importFavorites") =>
        /\ outcome.value.imported + outcome.value.existing + outcome.value.errors
              = Len(outcome.input.favorites.items)
        /\ Len(favorites) = Len(outcome.before) + outcome.value.imported
        /\ SubSeq(favorites, outcome.value.imported + 1, Len(favorites)) = outcome.before
        /\ \A k \in 1..outcome.value.imported :
             ImportedFrom(favorites[k],
                          NewEntries(outcome.input.favorites.items, outcome.before)[k])

\* a file of eight entries of every kind was imported into a list of two:
\* two favorites were imported in front, one existed, five were errors
C26_Witness ==
    /\ Returned("importFavorites")
    /\ Len(outcome.input.favorites.items) = 8
    /\ Len(outcome.before) = 2
    /\ outcome.value.imported = 2
    /\ outcome.value.existing = 1
    /\ outcome.value.errors = 5
    /\ favorites[1].name = "Oven" /\ favorites[2].name = "Energy"
    /\ favorites[2].useCount = 3
    /\ favorites[3] = outcome.before[1]


-----------------------------------------------------------------------------
(* The API service: the status of the error it throws *)

\* a request was answered: fetch settled and ApiService.request returned or threw
Answered == "response" \in DOMAIN settled

\* the request threw an ApiError of the status
ThrewStatus(status) == settled.answer.threw /\ settled.answer.error.status = status

\* C30: for every HTTP response with a non-2xx status, whatever its body,
\* ApiService.request throws an ApiError whose status is the status of the
\* response, and it throws an ApiError of status 0 only when no HTTP
\* response was received
C30_ErrorStatusIsResponseStatus ==
    Answered =>
        /\ (settled.response.received /\ ~Ok(settled.response))
               => ThrewStatus(settled.response.status)
        /\ ThrewStatus(0) => ~settled.response.received

-----------------------------------------------------------------------------
(* The browser app: conversions in flight *)

\* the conversion requests sent and not yet answered
Outstanding == {i \in DOMAIN requests : requests[i].kind = "convert"}

\* the conversion request in flight was sent for other units or another
\* value than the form holds now: an event came while it was outstanding
FormMovedOn ==
    \E i \in Outstanding :
        \/ requests[i].body.fromUnit # elements.fromUnit
        \/ requests[i].body.toUnit # elements.toUnit
        \/ NumberToString(requests[i].body.value) # elements.fromValue

\* C27: for any interleaving of typing, unit changes, swap, convert button
\* and keyboard events with the completion of requests, at most one
\* conversion request is outstanding, and isConverting is true exactly while
\* one is outstanding (so it is false again once the request has completed,
\* with a success, a failure or a thrown error)
C27_OneConversionInFlight ==
    /\ Cardinality(Outstanding) <= 1
    /\ app.isConverting <=> Outstanding # {}

\* C27: a conversion is outstanding, isConverting is set, and the user has
\* changed the form since the request was sent
C27_Witness ==
    /\ app.isConverting
    /\ Outstanding # {}
    /\ FormMovedOn

-----------------------------------------------------------------------------
(* The browser app: the result shown and the form *)

\* no conversion request is outstanding and no debounce timer is pending
Quiescent == Outstanding = {} /\ ~timeout

\* the number the form holds, as performConversion reads it
FormValue == parseFloat(Str(elements.fromValue))

\* the from-value is a valid number and two different units of the current
\* category are selected
FormConverts ==
    /\ app.currentCategory # Null
    /\ validateValue(FormValue).valid
    /\ elements.fromUnit # ""
    /\ elements.toUnit # ""
    /\ elements.fromUnit # elements.toUnit

\* the conversion of the current value between the selected units in the
\* current category
FormConversion ==
    Served(ConvertRequest(ConvertBody(validateValue(FormValue).value,
                                      elements.fromUnit, elements.toUnit,
                                      app.currentCategory))).data

\* lastConversion and the shown converted value are that conversion
ResultAgrees ==
    /\ app.lastConversion = FormConversion
    /\ elements.toValue = formatNumber(FormConversion.convertedValue)
    /\ elements.conversionResult = "block"

\* no result is kept and none is shown
ResultCleared ==
    /\ app.lastConversion = NoConversion
    /\ elements.conversionResult = "none"

\* C28: once no conversion request is outstanding and no debounce timer is
\* pending, the displayed result agrees with the form: if the from-value is
\* a valid number and the selected units differ, the shown converted value
\* and lastConversion are the conversion of the current value between the
\* selected units in the current category; and after goBackToCategories,
\* where no conversion can start before a category is selected,
\* lastConversion is null and the result is hidden
C28_ResultAgreesWithForm ==
    Quiescent =>
        /\ FormConverts => ResultAgrees
        /\ app.currentCategory = Null => ResultCleared
====
